---- MODULE Spec2Model ----
(***************************************************************************)
(* Request-defense pipeline of the BOQMate backend.                        *)
(*                                                                         *)
(*   backend/security.py                       SecurityManager             *)
(*   backend/middleware/security_middleware.py the four middleware stages  *)
(*   backend/main.py                           the middleware stack        *)
(*                                                                         *)
(* Time is an integer clock (time.time() read by check_rate_limit).        *)
(***************************************************************************)
EXTENDS Integers, Sequences, FiniteSets, TLC

(***************************************************************************)
(* Bounds of the model.                                                    *)
(***************************************************************************)
\* RATE_LIMIT_REQUESTS (security.py:22, default 100), scaled down.
rate_limit_requests == 2
\* RATE_LIMIT_WINDOW (security.py:23, default 3600 s), scaled down.
rate_limit_window == 2
\* The clock runs from 0 to MaxTime.
MaxTime == 4
\* Direct calls of check_rate_limit per identity in SpecRL.
MaxCalls == 5

\* Request tasks in flight at the same time in SpecConc.
NumTasks == 2

\* Client identities (the strings get_client_ip returns).
Identities == {"ip1", "ip2"}
\* The identities whose requests the pipeline specifications serve.
Clients == {"ip1"}

Tasks == 1..NumTasks

VARIABLES
    now,              \* the clock: time.time()
    request_history,  \* SecurityManager.request_history: ip -> list of times
    blocked_ips,      \* SecurityManager.blocked_ips
    admitted,         \* observer: per ip, the admitted timestamps that lie
                      \* in the trailing window ending at now
    callLog,          \* observer: per ip, the calls of check_rate_limit made
                      \* directly (SpecRL): time, result, state around it
    task,             \* per request task: the request, its position in the
                      \* middleware stack, its response and what it logged
    security_logs,    \* the rows of table security_logs (database.py:57-66)
    tok,              \* SpecFn: the session token issued or verified last
    fn,               \* SpecFn: the last call of a string function
    files,            \* the rows of table files (database.py:27-38)
    dbcall            \* SpecDb: the last call of a method of SecureDatabase

rlvars == <<now, request_history, blocked_ips, admitted, callLog>>
\* What no step of the pipeline and of the rate limiter touches.
fnvars == <<security_logs, tok, fn, files, dbcall>>
vars == <<now, request_history, blocked_ips, admitted, callLog, task,
          security_logs, tok, fn, files, dbcall>>

(***************************************************************************)
(* SecurityManager.check_rate_limit  (security.py:213-233)                 *)
(***************************************************************************)
\* security.py:217-218: a missing key is given the empty list.
HistoryOf(ip) ==
    IF ip \in DOMAIN request_history THEN request_history[ip] ELSE <<>>

\* Faults of the purge: it keeps every entry; it keeps the entries that are
\* exactly one window old; it also drops the entries of the last second of
\* the window.
PurgeOld_keepsAll(h, t) ==
    h

PurgeOld_keepsBoundary(h, t) ==
    SelectSeq(h, LAMBDA s : t - s <= rate_limit_window)

PurgeOld_dropsRecent(h, t) ==
    SelectSeq(h, LAMBDA s : t - s < rate_limit_window - 1)

\* security.py:221-224: keep the entries with current_time - req_time < window.
PurgeOld(h, t) ==
    SelectSeq(h, LAMBDA s : t - s < rate_limit_window)

\* Fault of the boundary check: > in place of >=.
TooMany_offByOne(h) ==
    Len(h) > rate_limit_requests

\* security.py:227: len(history) >= rate_limit_requests.
TooMany(h) ==
    Len(h) >= rate_limit_requests

\* Fault of the append: the update is lost (what an unsynchronised
\* read-modify-write of two tasks ends in).
RecordRequest_lost(h, t) ==
    h

\* security.py:232: request_history[ip].append(current_time).
RecordRequest(h, t) ==
    Append(h, t)

\* The value check_rate_limit(ip) returns when called in the current state.
RateLimitResult(ip) ==
    ~TooMany(PurgeOld(HistoryOf(ip), now))

\* The effect of check_rate_limit(ip) on the manager's state.
check_rate_limit(ip) ==
    LET h == PurgeOld(HistoryOf(ip), now) IN
    IF TooMany(h)
    THEN /\ request_history' = (ip :> h) @@ request_history
         /\ blocked_ips' = blocked_ips \cup {ip}          \* block_ip
         /\ admitted' = admitted
    ELSE /\ request_history' = (ip :> RecordRequest(h, now)) @@ request_history
         /\ blocked_ips' = blocked_ips
         /\ admitted' = [admitted EXCEPT ![ip] = Append(@, now)]

\* SecurityManager.is_ip_blocked (security.py:204-206).
is_ip_blocked(ip) ==
    ip \in blocked_ips

(***************************************************************************)
(* Strings.  A string is the sequence of its code points; the model has    *)
(* the code points 0..255.                                                 *)
(***************************************************************************)
\* Lengths and sizes of the inputs of the string functions in SpecFn.
MaxNameLen == 4
MaxWords == 2
MaxNodes == 4
MaxHeaderLen == 3

\* The characters str.strip() removes and \s matches.
Whitespace == {9, 10, 11, 12, 13, 28, 29, 30, 31, 32, 133, 160}
\* The characters \w matches.
WordChars ==
    (48..57) \cup (65..90) \cup {95} \cup (97..122) \cup
    {170, 178, 179, 181, 185, 186, 188, 189, 190} \cup
    (192..214) \cup (216..246) \cup (248..255)

\* str.lower() of one character, which is also the case folding of
\* re.IGNORECASE on these code points.
lower(c) ==
    IF c \in (65..90) \cup (192..214) \cup (216..222) THEN c + 32 ELSE c

\* text.lower()
Lower(s) == [i \in 1..Len(s) |-> lower(s[i])]

\* Whether p occurs in s at position i.
OccursAt(p, s, i) ==
    /\ i + Len(p) - 1 <= Len(s)
    /\ SubSeq(s, i, i + Len(p) - 1) = p

\* re.sub(p, '', s) for a pattern that is the literal p: the occurrences
\* are found from left to right, each search resuming behind the occurrence
\* found last; what the removals leave is not searched again.
RECURSIVE re_sub(_, _, _)
re_sub(p, s, i) ==
    IF i > Len(s) THEN << >>
    ELSE IF OccursAt(p, s, i) THEN re_sub(p, s, i + Len(p))
    ELSE <<s[i]>> \o re_sub(p, s, i + 1)

(***************************************************************************)
(* The signatures  (security.py:26-195) and their matching                 *)
(***************************************************************************)
\* The items of a signature: one character, or a run (of at least min
\* characters) of a class: "any" is ".", "space" is \s, "word" is \w.
Chr(c) == [cls |-> "chr", c |-> c, min |-> 1, many |-> FALSE]
Star(cls) == [cls |-> cls, c |-> 0, min |-> 0, many |-> TRUE]
Plus(cls) == [cls |-> cls, c |-> 0, min |-> 1, many |-> TRUE]

suspicious_patterns == <<
    \* line 27: '<script.*?>.*?</script>'
    <<Chr(60), Chr(115), Chr(99), Chr(114), Chr(105), Chr(112), Chr(116),
      Star("any"), Chr(62), Star("any"), Chr(60), Chr(47), Chr(115), Chr(99),
      Chr(114), Chr(105), Chr(112), Chr(116), Chr(62)>>,
    \* line 28: 'javascript:'
    <<Chr(106), Chr(97), Chr(118), Chr(97), Chr(115), Chr(99), Chr(114),
      Chr(105), Chr(112), Chr(116), Chr(58)>>,
    \* line 29: 'on\\w+\\s*='
    <<Chr(111), Chr(110), Plus("word"), Star("space"), Chr(61)>>,
    \* line 30: 'union\\s+select'
    <<Chr(117), Chr(110), Chr(105), Chr(111), Chr(110), Plus("space"),
      Chr(115), Chr(101), Chr(108), Chr(101), Chr(99), Chr(116)>>,
    \* line 31: 'drop\\s+table'
    <<Chr(100), Chr(114), Chr(111), Chr(112), Plus("space"), Chr(116),
      Chr(97), Chr(98), Chr(108), Chr(101)>>,
    \* line 32: 'delete\\s+from'
    <<Chr(100), Chr(101), Chr(108), Chr(101), Chr(116), Chr(101),
      Plus("space"), Chr(102), Chr(114), Chr(111), Chr(109)>>,
    \* line 33: 'insert\\s+into'
    <<Chr(105), Chr(110), Chr(115), Chr(101), Chr(114), Chr(116),
      Plus("space"), Chr(105), Chr(110), Chr(116), Chr(111)>>,
    \* line 34: 'update\\s+set'
    <<Chr(117), Chr(112), Chr(100), Chr(97), Chr(116), Chr(101),
      Plus("space"), Chr(115), Chr(101), Chr(116)>>,
    \* line 35: 'exec\\s*\\('
    <<Chr(101), Chr(120), Chr(101), Chr(99), Star("space"), Chr(40)>>,
    \* line 36: 'eval\\s*\\('
    <<Chr(101), Chr(118), Chr(97), Chr(108), Star("space"), Chr(40)>>,
    \* line 37: 'document\\.cookie'
    <<Chr(100), Chr(111), Chr(99), Chr(117), Chr(109), Chr(101), Chr(110),
      Chr(116), Chr(46), Chr(99), Chr(111), Chr(111), Chr(107), Chr(105),
      Chr(101)>>,
    \* line 38: 'localStorage'
    <<Chr(108), Chr(111), Chr(99), Chr(97), Chr(108), Chr(83), Chr(116),
      Chr(111), Chr(114), Chr(97), Chr(103), Chr(101)>>,
    \* line 39: 'sessionStorage'
    <<Chr(115), Chr(101), Chr(115), Chr(115), Chr(105), Chr(111), Chr(110),
      Chr(83), Chr(116), Chr(111), Chr(114), Chr(97), Chr(103), Chr(101)>>,
    \* line 40: '\\.\\.\\/'
    <<Chr(46), Chr(46), Chr(47)>>,
    \* line 41: '\\.\\.\\\\'
    <<Chr(46), Chr(46), Chr(92)>>,
    \* line 42: '\\/etc\\/passwd'
    <<Chr(47), Chr(101), Chr(116), Chr(99), Chr(47), Chr(112), Chr(97),
      Chr(115), Chr(115), Chr(119), Chr(100)>>,
    \* line 43: '\\/proc\\/'
    <<Chr(47), Chr(112), Chr(114), Chr(111), Chr(99), Chr(47)>>,
    \* line 44: '\\/sys\\/'
    <<Chr(47), Chr(115), Chr(121), Chr(115), Chr(47)>>,
    \* line 45: '\\/dev\\/'
    <<Chr(47), Chr(100), Chr(101), Chr(118), Chr(47)>>,
    \* line 46: '\\.\\.\\/\\.\\.\\/'
    <<Chr(46), Chr(46), Chr(47), Chr(46), Chr(46), Chr(47)>>,
    \* line 47: 'union.*select'
    <<Chr(117), Chr(110), Chr(105), Chr(111), Chr(110), Star("any"),
      Chr(115), Chr(101), Chr(108), Chr(101), Chr(99), Chr(116)>>,
    \* line 48: 'or\\s+1\\s*=\\s*1'
    <<Chr(111), Chr(114), Plus("space"), Chr(49), Star("space"), Chr(61),
      Star("space"), Chr(49)>>,
    \* line 49: 'or\\s+true'
    <<Chr(111), Chr(114), Plus("space"), Chr(116), Chr(114), Chr(117),
      Chr(101)>>,
    \* line 50: 'and\\s+1\\s*=\\s*1'
    <<Chr(97), Chr(110), Chr(100), Plus("space"), Chr(49), Star("space"),
      Chr(61), Star("space"), Chr(49)>>,
    \* line 51: 'and\\s+true'
    <<Chr(97), Chr(110), Chr(100), Plus("space"), Chr(116), Chr(114),
      Chr(117), Chr(101)>>,
    \* line 52: "';.*--"
    <<Chr(39), Chr(59), Star("any"), Chr(45), Chr(45)>>,
    \* line 53: "';.*#"
    <<Chr(39), Chr(59), Star("any"), Chr(35)>>,
    \* line 54: "';.*\\/\\*"
    <<Chr(39), Chr(59), Star("any"), Chr(47), Chr(42)>>,
    \* line 55: "';.*\\*\\/"
    <<Chr(39), Chr(59), Star("any"), Chr(42), Chr(47)>>,
    \* line 56: "';.*\\/\\/"
    <<Chr(39), Chr(59), Star("any"), Chr(47), Chr(47)>>,
    \* line 57: "';.*\\n"
    <<Chr(39), Chr(59), Star("any"), Chr(10)>>,
    \* line 58: "';.*\\r"
    <<Chr(39), Chr(59), Star("any"), Chr(13)>>,
    \* line 59: "';.*\\t"
    <<Chr(39), Chr(59), Star("any"), Chr(9)>>,
    \* line 60: "';.*\\x00"
    <<Chr(39), Chr(59), Star("any"), Chr(0)>>,
    \* line 61: "';.*\\x0a"
    <<Chr(39), Chr(59), Star("any"), Chr(10)>>,
    \* line 62: "';.*\\x0d"
    <<Chr(39), Chr(59), Star("any"), Chr(13)>>,
    \* line 63: "';.*\\x09"
    <<Chr(39), Chr(59), Star("any"), Chr(9)>>,
    \* line 64: "';.*\\x20"
    <<Chr(39), Chr(59), Star("any"), Chr(32)>>,
    \* line 65: "';.*\\x7f"
    <<Chr(39), Chr(59), Star("any"), Chr(127)>>,
    \* line 66: "';.*\\xff"
    <<Chr(39), Chr(59), Star("any"), Chr(255)>>,
    \* line 67: "';.*\\x80"
    <<Chr(39), Chr(59), Star("any"), Chr(128)>>,
    \* line 68: "';.*\\x81"
    <<Chr(39), Chr(59), Star("any"), Chr(129)>>,
    \* line 69: "';.*\\x82"
    <<Chr(39), Chr(59), Star("any"), Chr(130)>>,
    \* line 70: "';.*\\x83"
    <<Chr(39), Chr(59), Star("any"), Chr(131)>>,
    \* line 71: "';.*\\x84"
    <<Chr(39), Chr(59), Star("any"), Chr(132)>>,
    \* line 72: "';.*\\x85"
    <<Chr(39), Chr(59), Star("any"), Chr(133)>>,
    \* line 73: "';.*\\x86"
    <<Chr(39), Chr(59), Star("any"), Chr(134)>>,
    \* line 74: "';.*\\x87"
    <<Chr(39), Chr(59), Star("any"), Chr(135)>>,
    \* line 75: "';.*\\x88"
    <<Chr(39), Chr(59), Star("any"), Chr(136)>>,
    \* line 76: "';.*\\x89"
    <<Chr(39), Chr(59), Star("any"), Chr(137)>>,
    \* line 77: "';.*\\x8a"
    <<Chr(39), Chr(59), Star("any"), Chr(138)>>,
    \* line 78: "';.*\\x8b"
    <<Chr(39), Chr(59), Star("any"), Chr(139)>>,
    \* line 79: "';.*\\x8c"
    <<Chr(39), Chr(59), Star("any"), Chr(140)>>,
    \* line 80: "';.*\\x8d"
    <<Chr(39), Chr(59), Star("any"), Chr(141)>>,
    \* line 81: "';.*\\x8e"
    <<Chr(39), Chr(59), Star("any"), Chr(142)>>,
    \* line 82: "';.*\\x8f"
    <<Chr(39), Chr(59), Star("any"), Chr(143)>>,
    \* line 83: "';.*\\x90"
    <<Chr(39), Chr(59), Star("any"), Chr(144)>>,
    \* line 84: "';.*\\x91"
    <<Chr(39), Chr(59), Star("any"), Chr(145)>>,
    \* line 85: "';.*\\x92"
    <<Chr(39), Chr(59), Star("any"), Chr(146)>>,
    \* line 86: "';.*\\x93"
    <<Chr(39), Chr(59), Star("any"), Chr(147)>>,
    \* line 87: "';.*\\x94"
    <<Chr(39), Chr(59), Star("any"), Chr(148)>>,
    \* line 88: "';.*\\x95"
    <<Chr(39), Chr(59), Star("any"), Chr(149)>>,
    \* line 89: "';.*\\x96"
    <<Chr(39), Chr(59), Star("any"), Chr(150)>>,
    \* line 90: "';.*\\x97"
    <<Chr(39), Chr(59), Star("any"), Chr(151)>>,
    \* line 91: "';.*\\x98"
    <<Chr(39), Chr(59), Star("any"), Chr(152)>>,
    \* line 92: "';.*\\x99"
    <<Chr(39), Chr(59), Star("any"), Chr(153)>>,
    \* line 93: "';.*\\x9a"
    <<Chr(39), Chr(59), Star("any"), Chr(154)>>,
    \* line 94: "';.*\\x9b"
    <<Chr(39), Chr(59), Star("any"), Chr(155)>>,
    \* line 95: "';.*\\x9c"
    <<Chr(39), Chr(59), Star("any"), Chr(156)>>,
    \* line 96: "';.*\\x9d"
    <<Chr(39), Chr(59), Star("any"), Chr(157)>>,
    \* line 97: "';.*\\x9e"
    <<Chr(39), Chr(59), Star("any"), Chr(158)>>,
    \* line 98: "';.*\\x9f"
    <<Chr(39), Chr(59), Star("any"), Chr(159)>>,
    \* line 99: "';.*\\xa0"
    <<Chr(39), Chr(59), Star("any"), Chr(160)>>,
    \* line 100: "';.*\\xa1"
    <<Chr(39), Chr(59), Star("any"), Chr(161)>>,
    \* line 101: "';.*\\xa2"
    <<Chr(39), Chr(59), Star("any"), Chr(162)>>,
    \* line 102: "';.*\\xa3"
    <<Chr(39), Chr(59), Star("any"), Chr(163)>>,
    \* line 103: "';.*\\xa4"
    <<Chr(39), Chr(59), Star("any"), Chr(164)>>,
    \* line 104: "';.*\\xa5"
    <<Chr(39), Chr(59), Star("any"), Chr(165)>>,
    \* line 105: "';.*\\xa6"
    <<Chr(39), Chr(59), Star("any"), Chr(166)>>,
    \* line 106: "';.*\\xa7"
    <<Chr(39), Chr(59), Star("any"), Chr(167)>>,
    \* line 107: "';.*\\xa8"
    <<Chr(39), Chr(59), Star("any"), Chr(168)>>,
    \* line 108: "';.*\\xa9"
    <<Chr(39), Chr(59), Star("any"), Chr(169)>>,
    \* line 109: "';.*\\xaa"
    <<Chr(39), Chr(59), Star("any"), Chr(170)>>,
    \* line 110: "';.*\\xab"
    <<Chr(39), Chr(59), Star("any"), Chr(171)>>,
    \* line 111: "';.*\\xac"
    <<Chr(39), Chr(59), Star("any"), Chr(172)>>,
    \* line 112: "';.*\\xad"
    <<Chr(39), Chr(59), Star("any"), Chr(173)>>,
    \* line 113: "';.*\\xae"
    <<Chr(39), Chr(59), Star("any"), Chr(174)>>,
    \* line 114: "';.*\\xaf"
    <<Chr(39), Chr(59), Star("any"), Chr(175)>>,
    \* line 115: "';.*\\xb0"
    <<Chr(39), Chr(59), Star("any"), Chr(176)>>,
    \* line 116: "';.*\\xb1"
    <<Chr(39), Chr(59), Star("any"), Chr(177)>>,
    \* line 117: "';.*\\xb2"
    <<Chr(39), Chr(59), Star("any"), Chr(178)>>,
    \* line 118: "';.*\\xb3"
    <<Chr(39), Chr(59), Star("any"), Chr(179)>>,
    \* line 119: "';.*\\xb4"
    <<Chr(39), Chr(59), Star("any"), Chr(180)>>,
    \* line 120: "';.*\\xb5"
    <<Chr(39), Chr(59), Star("any"), Chr(181)>>,
    \* line 121: "';.*\\xb6"
    <<Chr(39), Chr(59), Star("any"), Chr(182)>>,
    \* line 122: "';.*\\xb7"
    <<Chr(39), Chr(59), Star("any"), Chr(183)>>,
    \* line 123: "';.*\\xb8"
    <<Chr(39), Chr(59), Star("any"), Chr(184)>>,
    \* line 124: "';.*\\xb9"
    <<Chr(39), Chr(59), Star("any"), Chr(185)>>,
    \* line 125: "';.*\\xba"
    <<Chr(39), Chr(59), Star("any"), Chr(186)>>,
    \* line 126: "';.*\\xbb"
    <<Chr(39), Chr(59), Star("any"), Chr(187)>>,
    \* line 127: "';.*\\xbc"
    <<Chr(39), Chr(59), Star("any"), Chr(188)>>,
    \* line 128: "';.*\\xbd"
    <<Chr(39), Chr(59), Star("any"), Chr(189)>>,
    \* line 129: "';.*\\xbe"
    <<Chr(39), Chr(59), Star("any"), Chr(190)>>,
    \* line 130: "';.*\\xbf"
    <<Chr(39), Chr(59), Star("any"), Chr(191)>>,
    \* line 131: "';.*\\xc0"
    <<Chr(39), Chr(59), Star("any"), Chr(192)>>,
    \* line 132: "';.*\\xc1"
    <<Chr(39), Chr(59), Star("any"), Chr(193)>>,
    \* line 133: "';.*\\xc2"
    <<Chr(39), Chr(59), Star("any"), Chr(194)>>,
    \* line 134: "';.*\\xc3"
    <<Chr(39), Chr(59), Star("any"), Chr(195)>>,
    \* line 135: "';.*\\xc4"
    <<Chr(39), Chr(59), Star("any"), Chr(196)>>,
    \* line 136: "';.*\\xc5"
    <<Chr(39), Chr(59), Star("any"), Chr(197)>>,
    \* line 137: "';.*\\xc6"
    <<Chr(39), Chr(59), Star("any"), Chr(198)>>,
    \* line 138: "';.*\\xc7"
    <<Chr(39), Chr(59), Star("any"), Chr(199)>>,
    \* line 139: "';.*\\xc8"
    <<Chr(39), Chr(59), Star("any"), Chr(200)>>,
    \* line 140: "';.*\\xc9"
    <<Chr(39), Chr(59), Star("any"), Chr(201)>>,
    \* line 141: "';.*\\xca"
    <<Chr(39), Chr(59), Star("any"), Chr(202)>>,
    \* line 142: "';.*\\xcb"
    <<Chr(39), Chr(59), Star("any"), Chr(203)>>,
    \* line 143: "';.*\\xcc"
    <<Chr(39), Chr(59), Star("any"), Chr(204)>>,
    \* line 144: "';.*\\xcd"
    <<Chr(39), Chr(59), Star("any"), Chr(205)>>,
    \* line 145: "';.*\\xce"
    <<Chr(39), Chr(59), Star("any"), Chr(206)>>,
    \* line 146: "';.*\\xcf"
    <<Chr(39), Chr(59), Star("any"), Chr(207)>>,
    \* line 147: "';.*\\xd0"
    <<Chr(39), Chr(59), Star("any"), Chr(208)>>,
    \* line 148: "';.*\\xd1"
    <<Chr(39), Chr(59), Star("any"), Chr(209)>>,
    \* line 149: "';.*\\xd2"
    <<Chr(39), Chr(59), Star("any"), Chr(210)>>,
    \* line 150: "';.*\\xd3"
    <<Chr(39), Chr(59), Star("any"), Chr(211)>>,
    \* line 151: "';.*\\xd4"
    <<Chr(39), Chr(59), Star("any"), Chr(212)>>,
    \* line 152: "';.*\\xd5"
    <<Chr(39), Chr(59), Star("any"), Chr(213)>>,
    \* line 153: "';.*\\xd6"
    <<Chr(39), Chr(59), Star("any"), Chr(214)>>,
    \* line 154: "';.*\\xd7"
    <<Chr(39), Chr(59), Star("any"), Chr(215)>>,
    \* line 155: "';.*\\xd8"
    <<Chr(39), Chr(59), Star("any"), Chr(216)>>,
    \* line 156: "';.*\\xd9"
    <<Chr(39), Chr(59), Star("any"), Chr(217)>>,
    \* line 157: "';.*\\xda"
    <<Chr(39), Chr(59), Star("any"), Chr(218)>>,
    \* line 158: "';.*\\xdb"
    <<Chr(39), Chr(59), Star("any"), Chr(219)>>,
    \* line 159: "';.*\\xdc"
    <<Chr(39), Chr(59), Star("any"), Chr(220)>>,
    \* line 160: "';.*\\xdd"
    <<Chr(39), Chr(59), Star("any"), Chr(221)>>,
    \* line 161: "';.*\\xde"
    <<Chr(39), Chr(59), Star("any"), Chr(222)>>,
    \* line 162: "';.*\\xdf"
    <<Chr(39), Chr(59), Star("any"), Chr(223)>>,
    \* line 163: "';.*\\xe0"
    <<Chr(39), Chr(59), Star("any"), Chr(224)>>,
    \* line 164: "';.*\\xe1"
    <<Chr(39), Chr(59), Star("any"), Chr(225)>>,
    \* line 165: "';.*\\xe2"
    <<Chr(39), Chr(59), Star("any"), Chr(226)>>,
    \* line 166: "';.*\\xe3"
    <<Chr(39), Chr(59), Star("any"), Chr(227)>>,
    \* line 167: "';.*\\xe4"
    <<Chr(39), Chr(59), Star("any"), Chr(228)>>,
    \* line 168: "';.*\\xe5"
    <<Chr(39), Chr(59), Star("any"), Chr(229)>>,
    \* line 169: "';.*\\xe6"
    <<Chr(39), Chr(59), Star("any"), Chr(230)>>,
    \* line 170: "';.*\\xe7"
    <<Chr(39), Chr(59), Star("any"), Chr(231)>>,
    \* line 171: "';.*\\xe8"
    <<Chr(39), Chr(59), Star("any"), Chr(232)>>,
    \* line 172: "';.*\\xe9"
    <<Chr(39), Chr(59), Star("any"), Chr(233)>>,
    \* line 173: "';.*\\xea"
    <<Chr(39), Chr(59), Star("any"), Chr(234)>>,
    \* line 174: "';.*\\xeb"
    <<Chr(39), Chr(59), Star("any"), Chr(235)>>,
    \* line 175: "';.*\\xec"
    <<Chr(39), Chr(59), Star("any"), Chr(236)>>,
    \* line 176: "';.*\\xed"
    <<Chr(39), Chr(59), Star("any"), Chr(237)>>,
    \* line 177: "';.*\\xee"
    <<Chr(39), Chr(59), Star("any"), Chr(238)>>,
    \* line 178: "';.*\\xef"
    <<Chr(39), Chr(59), Star("any"), Chr(239)>>,
    \* line 179: "';.*\\xf0"
    <<Chr(39), Chr(59), Star("any"), Chr(240)>>,
    \* line 180: "';.*\\xf1"
    <<Chr(39), Chr(59), Star("any"), Chr(241)>>,
    \* line 181: "';.*\\xf2"
    <<Chr(39), Chr(59), Star("any"), Chr(242)>>,
    \* line 182: "';.*\\xf3"
    <<Chr(39), Chr(59), Star("any"), Chr(243)>>,
    \* line 183: "';.*\\xf4"
    <<Chr(39), Chr(59), Star("any"), Chr(244)>>,
    \* line 184: "';.*\\xf5"
    <<Chr(39), Chr(59), Star("any"), Chr(245)>>,
    \* line 185: "';.*\\xf6"
    <<Chr(39), Chr(59), Star("any"), Chr(246)>>,
    \* line 186: "';.*\\xf7"
    <<Chr(39), Chr(59), Star("any"), Chr(247)>>,
    \* line 187: "';.*\\xf8"
    <<Chr(39), Chr(59), Star("any"), Chr(248)>>,
    \* line 188: "';.*\\xf9"
    <<Chr(39), Chr(59), Star("any"), Chr(249)>>,
    \* line 189: "';.*\\xfa"
    <<Chr(39), Chr(59), Star("any"), Chr(250)>>,
    \* line 190: "';.*\\xfb"
    <<Chr(39), Chr(59), Star("any"), Chr(251)>>,
    \* line 191: "';.*\\xfc"
    <<Chr(39), Chr(59), Star("any"), Chr(252)>>,
    \* line 192: "';.*\\xfd"
    <<Chr(39), Chr(59), Star("any"), Chr(253)>>,
    \* line 193: "';.*\\xfe"
    <<Chr(39), Chr(59), Star("any"), Chr(254)>>,
    \* line 194: "';.*\\xff"
    <<Chr(39), Chr(59), Star("any"), Chr(255)>>
>>

\* Whether item it matches the character d under re.IGNORECASE; "." matches
\* every character but the newline.
Accepts(it, d) ==
    CASE it.cls = "chr"   -> lower(it.c) = lower(d)
      [] it.cls = "any"   -> d # 10
      [] it.cls = "space" -> d \in Whitespace
      [] it.cls = "word"  -> d \in WordChars

\* Whether the items k.. of pattern p match a stretch of s that starts at i.
RECURSIVE MatchHere(_, _, _, _)
MatchHere(p, k, s, i) ==
    IF k > Len(p) THEN TRUE
    ELSE IF ~p[k].many
    THEN /\ i <= Len(s)
         /\ Accepts(p[k], s[i])
         /\ MatchHere(p, k + 1, s, i + 1)
    ELSE \E n \in p[k].min..(Len(s) - i + 1) :
            /\ \A j \in i..(i + n - 1) : Accepts(p[k], s[j])
            /\ MatchHere(p, k + 1, s, i + n)

\* re.search(p, s, re.IGNORECASE)
re_search(p, s) ==
    \E i \in 1..(Len(s) + 1) : MatchHere(p, 1, s, i)

\* The characters that every match of p contains: its literal ones.
Literals(p) ==
    { lower(p[k].c) : k \in { j \in 1..Len(p) : p[j].cls = "chr" } }

\* The characters of s, letter case ignored.
CharsOf(s) == { lower(s[i]) : i \in 1..Len(s) }

\* re.search(p, s, re.IGNORECASE) again, for a text whose characters are
\* chars: a pattern with a literal character that the text does not have
\* matches nowhere in it, the others are searched for.
re_search_in(p, s, chars) ==
    /\ Literals(p) \subseteq chars
    /\ re_search(p, s)

(***************************************************************************)
(* validate_input  (security.py:235-262)                                   *)
(***************************************************************************)
\* "if len(text) > 10000"
MaxTextLength == 10000

\* Fault of the control character check: tab, newline and carriage return
\* are refused as well.
IsControl_noExceptions(c) ==
    c < 32

\* '\x00' in text or any(ord(c) < 32 and c not in '\t\n\r' for c in text)
IsControl(c) ==
    c = 0 \/ (c < 32 /\ c \notin {9, 10, 13})

\* Fault of _validate_string: the length of the text is not tested.
_validate_string_noCap(text) ==
    LET text_lower == Lower(text)
        chars == CharsOf(text_lower)
    IN
    IF \E k \in 1..Len(suspicious_patterns) :
          re_search_in(suspicious_patterns[k], text_lower, chars)
    THEN FALSE
    ELSE IF \E i \in 1..Len(text) : IsControl(text[i]) THEN FALSE
    ELSE TRUE

_validate_string(text) ==
    LET text_lower == Lower(text)
        chars == CharsOf(text_lower)
    IN
    IF \E k \in 1..Len(suspicious_patterns) :
          re_search_in(suspicious_patterns[k], text_lower, chars)
    THEN FALSE
    ELSE IF \E i \in 1..Len(text) : IsControl(text[i]) THEN FALSE
    ELSE IF Len(text) > MaxTextLength THEN FALSE
    ELSE TRUE

\* The tests that _validate_string has made when it returns, in the order in
\* which it made them: the signatures, the control characters, the length.
ValidateStringChecks(text) ==
    LET text_lower == Lower(text)
        chars == CharsOf(text_lower)
    IN
    IF \E k \in 1..Len(suspicious_patterns) :
          re_search_in(suspicious_patterns[k], text_lower, chars)
    THEN <<"patterns">>
    ELSE IF \E i \in 1..Len(text) : IsControl(text[i])
    THEN <<"patterns", "control">>
    ELSE <<"patterns", "control", "length">>

\* The data validate_input is called with: a str, a dict (items: its values
\* in order), a list, or a value of another type (a number, None).
Str(text) == [kind |-> "str", text |-> text, items |-> << >>]
Dict(values) == [kind |-> "dict", text |-> << >>, items |-> values]
List(items) == [kind |-> "list", text |-> << >>, items |-> items]
Other == [kind |-> "other", text |-> << >>, items |-> << >>]

RECURSIVE validate_input(_)

\* Fault of all(): only the first element is looked at.
all_firstOnly(bs) ==
    bs = << >> \/ bs[1]

\* all(...) of Python
all(bs) ==
    \A i \in 1..Len(bs) : bs[i]

validate_input(data) ==
    IF data.kind = "str" THEN _validate_string(data.text)
    ELSE IF data.kind = "dict"
    THEN all([i \in 1..Len(data.items) |-> validate_input(data.items[i])])
    ELSE IF data.kind = "list"
    THEN all([i \in 1..Len(data.items) |-> validate_input(data.items[i])])
    ELSE TRUE

(***************************************************************************)
(* sanitize_filename, validate_file_type  (security.py:264-283)            *)
(***************************************************************************)
\* "../", "..\" and the characters of [<>:"|?*]
DotDotSlash == <<46, 46, 47>>
DotDotBackslash == <<46, 46, 92>>
IllegalChars == {60, 62, 58, 34, 124, 63, 42}
\* "if len(filename) > 255: filename = filename[:255]"
MaxFilenameLength == 255

sanitize_filename(filename) ==
    LET a == re_sub(DotDotSlash, filename, 1)
        b == re_sub(DotDotBackslash, a, 1)
        c == SelectSeq(b, LAMBDA ch : ch \notin IllegalChars)
    IN
    IF Len(c) > MaxFilenameLength THEN SubSeq(c, 1, MaxFilenameLength) ELSE c

\* s.split('.')[-1]: what follows the last "." of s, all of s without one.
LastDotPart(s) ==
    LET dots == {i \in 1..Len(s) : s[i] = 46} IN
    IF dots = {} THEN s
    ELSE SubSeq(s, (CHOOSE i \in dots : \A j \in dots : j <= i) + 1, Len(s))

\* allowed_extensions  (security_middleware.py:113)
allowed_extensions == {
    <<112, 100, 102>>,            \* pdf
    <<116, 120, 116>>,            \* txt
    <<100, 111, 99, 120>>,        \* docx
    <<100, 119, 103>>,            \* dwg
    <<100, 120, 102>>,            \* dxf
    <<114, 118, 116>>,            \* rvt
    <<114, 102, 97>>,             \* rfa
    <<100, 103, 110>>,            \* dgn
    <<115, 107, 112>>             \* skp
}

validate_file_type(filename, allowed) ==
    IF filename = << >> THEN FALSE
    ELSE LastDotPart(Lower(filename)) \in allowed

(***************************************************************************)
(* get_client_ip  (security.py:197-202)                                    *)
(***************************************************************************)
\* s.split(",")[0]: what precedes the first "," of s, all of s without one.
FirstEntry(s) ==
    LET commas == {i \in 1..Len(s) : s[i] = 44} IN
    IF commas = {} THEN s
    ELSE SubSeq(s, 1, (CHOOSE i \in commas : \A j \in commas : i <= j) - 1)

\* Fault of the trimming: only the whitespace in front is removed.
strip_leftOnly(s) ==
    LET keep == {i \in 1..Len(s) : s[i] \notin Whitespace} IN
    IF keep = {} THEN << >>
    ELSE SubSeq(s, CHOOSE i \in keep : \A j \in keep : i <= j, Len(s))

\* s.strip()
strip(s) ==
    LET keep == {i \in 1..Len(s) : s[i] \notin Whitespace} IN
    IF keep = {} THEN << >>
    ELSE SubSeq(s, CHOOSE i \in keep : \A j \in keep : i <= j,
                   CHOOSE i \in keep : \A j \in keep : j <= i)

\* header: the X-Forwarded-For header of the request (present or not, and its
\* value); host: request.client.host.  An empty value is a false value.
get_client_ip(header, host) ==
    IF header.present /\ header.value # << >>
    THEN strip(FirstEntry(header.value))
    ELSE host

NoCall ==
    [op |-> "none", done |-> TRUE, arg |-> << >>, data |-> Other,
     present |-> FALSE, host |-> << >>, res |-> << >>, ok |-> TRUE,
     checks |-> << >>]

(***************************************************************************)
(* Session tokens  (security.py:285-306; jwt is python-jose's)             *)
(***************************************************************************)
\* Expiry times asked of generate_secure_token in SpecFn.
MaxTtl == 2

\* self.secret_key (security.py:21, from SECURITY_SECRET_KEY), the secret of
\* get_current_user (auth.py:7, from SUPABASE_JWT_SECRET), and a key that is
\* neither.
SECRET == "secret_key"
SUPABASE_JWT_SECRET == "supabase_jwt_secret"
Keys == {SECRET, SUPABASE_JWT_SECRET, "other_key"}
\* What a deployment can give get_current_user as its secret: the two
\* environment variables are set independently and may hold the same value.
DependencySecrets == {SECRET, SUPABASE_JWT_SECRET}
\* auth.py:8, the audience get_current_user asks for.
SUPABASE_PROJECT_ID == "supabase-project"
Subjects == {"user-42", "user-7"}
Issuers == {"BOQMate", "Other"}
\* "absent": the token has no aud claim; as the audience argument of
\* jwt.decode: the argument is not given.
Audiences == {"BOQMate-Users", "Other-Users", SUPABASE_PROJECT_ID, "absent"}

\* A token is its claim set and the key it was signed with.  (A string that
\* is no token at all fails in jwt.decode as a wrong signature does.)  sub is
\* the claim get_current_user reads; "absent": the token has no sub claim.
Tokens ==
    [key : Keys, user_id : Subjects, sub : Subjects \cup {"absent"},
     exp : 0..(MaxTime + 1), iss : Issuers, aud : Audiences]

\* SecurityManager.generate_secure_token(user_id, expires_in) called at t.
generate_secure_token(user_id, expires_in, t) ==
    [key |-> SECRET, user_id |-> user_id, sub |-> "absent",
     exp |-> t + expires_in, iss |-> "BOQMate", aud |-> "BOQMate-Users"]

\* jwt.decode(token, key, algorithms=["HS256"], audience=audience) at time t:
\* the signature is verified (JWTError), then the claims: exp
\* (ExpiredSignatureError when exp < now), then aud (JWTClaimsError when the
\* token has an aud claim that is not the audience asked for, also when no
\* audience is asked for); the issuer is compared only with an issuer
\* argument, which no caller gives.
jwt_decode(token, key, audience, t) ==
    IF token.key # key THEN "JWTError"
    ELSE IF token.exp < t THEN "ExpiredSignatureError"
    ELSE IF token.aud # "absent" /\ token.aud # audience THEN "JWTClaimsError"
    ELSE "payload"

\* SecurityManager.verify_token(token) at time t: "payload" (the claims are
\* returned), "None", or "AttributeError": the second except clause names
\* jwt.InvalidTokenError, which the jose.jwt module does not have, so every
\* exception other than ExpiredSignatureError ends in an AttributeError
\* raised out of verify_token.
verify_token(token, t) ==
    LET d == jwt_decode(token, SECRET, "absent", t) IN
    IF d = "payload" THEN "payload"
    ELSE IF d = "ExpiredSignatureError" THEN "None"
    ELSE "AttributeError"

\* get_current_user(request) at time t, for a request whose Authorization
\* header carries token, with secret the value of SUPABASE_JWT_SECRET
\* (auth.py:21-56): the user id of claim sub, or which except clause makes
\* the 401.  The HTTPException for a missing sub is raised inside the try and
\* caught by the last clause; JWTClaimsError is a JWTError.
get_current_user(token, secret, t) ==
    LET d == jwt_decode(token, secret, SUPABASE_PROJECT_ID, t) IN
    IF d = "payload"
    THEN IF token.sub = "absent"
         THEN [raises |-> "Exception", user_id |-> ""]
         ELSE [raises |-> "", user_id |-> token.sub]
    ELSE IF d = "ExpiredSignatureError"
    THEN [raises |-> "ExpiredSignatureError", user_id |-> ""]
    ELSE [raises |-> "JWTError", user_id |-> ""]

NoToken ==
    [state |-> "none",
     token |-> [key |-> "", user_id |-> "", sub |-> "", exp |-> 0,
                iss |-> "", aud |-> ""],
     subject |-> "", issuedAt |-> 0, ttl |-> 0, result |-> "", at |-> 0]

(***************************************************************************)
(* SecureDatabase  (database.py)                                           *)
(***************************************************************************)
\* Rows the tables hold when the process opens the database file, at most;
\* how long before the start the oldest of them was written; the retention
\* periods asked of cleanup_old_logs.  The clock of SpecDb counts days.
MaxRows == 2
MaxAge == 2
MaxDays == 2

\* sql.upper(), one character: the statements are ASCII.
upper(c) ==
    IF c \in (97..122) \cup (224..246) \cup (248..254) THEN c - 32 ELSE c

\* sql.upper()
Upper(s) == [i \in 1..Len(s) |-> upper(s[i])]

\* dangerous_patterns  (database.py:108-123)
dangerous_patterns == {
    <<68, 82, 79, 80, 32, 84, 65, 66, 76, 69>>,               \* DROP TABLE
    <<68, 69, 76, 69, 84, 69, 32, 70, 82, 79, 77>>,           \* DELETE FROM
    <<73, 78, 83, 69, 82, 84, 32, 73, 78, 84, 79>>,           \* INSERT INTO
    <<85, 80, 68, 65, 84, 69, 32, 83, 69, 84>>,               \* UPDATE SET
    <<65, 76, 84, 69, 82, 32, 84, 65, 66, 76, 69>>,           \* ALTER TABLE
    <<67, 82, 69, 65, 84, 69, 32, 84, 65, 66, 76, 69>>,       \* CREATE TABLE
    <<84, 82, 85, 78, 67, 65, 84, 69>>,                       \* TRUNCATE
    <<69, 88, 69, 67>>,                                       \* EXEC
    <<69, 88, 69, 67, 85, 84, 69>>,                           \* EXECUTE
    <<85, 78, 73, 79, 78>>,                                   \* UNION
    <<79, 82, 32, 49, 61, 49>>,                               \* OR 1=1
    <<79, 82, 32, 84, 82, 85, 69>>,                           \* OR TRUE
    <<65, 78, 68, 32, 49, 61, 49>>,                           \* AND 1=1
    <<65, 78, 68, 32, 84, 82, 85, 69>>                        \* AND TRUE
}

\* "pattern in sql_upper"
In(pattern, text) ==
    \E i \in 1..Len(text) : OccursAt(pattern, text, i)

\* SecureDatabase._sanitize_sql(sql): ok says that the statement is returned,
\* ~ok that ValueError is raised.
_sanitize_sql(sql) ==
    LET sql_upper == Upper(sql) IN
    IF \E pattern \in dangerous_patterns : In(pattern, sql_upper)
    THEN [ok |-> FALSE, sql |-> << >>]
    ELSE [ok |-> TRUE, sql |-> sql]

\* The statements of the methods of SecureDatabase, as they are written in
\* database.py.
\* insert_file (database.py:157-160): INSERT INTO files ... VALUES ...
InsertFileSql ==
    <<10, 32, 32, 32, 32, 32, 32, 32, 32, 32, 32, 32, 32, 32, 32, 32, 32, 73,
      78, 83, 69, 82, 84, 32, 73, 78, 84, 79, 32, 102, 105, 108, 101, 115,
      32, 40, 105, 100, 44, 32, 117, 115, 101, 114, 95, 105, 100, 44, 32,
      102, 105, 108, 101, 110, 97, 109, 101, 44, 32, 102, 105, 108, 101, 112,
      97, 116, 104, 44, 32, 102, 105, 108, 101, 95, 104, 97, 115, 104, 44,
      32, 102, 105, 108, 101, 95, 115, 105, 122, 101, 41, 10, 32, 32, 32, 32,
      32, 32, 32, 32, 32, 32, 32, 32, 32, 32, 32, 32, 86, 65, 76, 85, 69, 83,
      32, 40, 63, 44, 32, 63, 44, 32, 63, 44, 32, 63, 44, 32, 63, 44, 32, 63,
      41, 10, 32, 32, 32, 32, 32, 32, 32, 32, 32, 32, 32, 32>>
\* update_file_boq (database.py:170-174): UPDATE files SET boq_data = ?, updated_at = CURREN...
UpdateFileBoqSql ==
    <<10, 32, 32, 32, 32, 32, 32, 32, 32, 32, 32, 32, 32, 32, 32, 32, 32, 85,
      80, 68, 65, 84, 69, 32, 102, 105, 108, 101, 115, 32, 10, 32, 32, 32,
      32, 32, 32, 32, 32, 32, 32, 32, 32, 32, 32, 32, 32, 83, 69, 84, 32, 98,
      111, 113, 95, 100, 97, 116, 97, 32, 61, 32, 63, 44, 32, 117, 112, 100,
      97, 116, 101, 100, 95, 97, 116, 32, 61, 32, 67, 85, 82, 82, 69, 78, 84,
      95, 84, 73, 77, 69, 83, 84, 65, 77, 80, 10, 32, 32, 32, 32, 32, 32, 32,
      32, 32, 32, 32, 32, 32, 32, 32, 32, 87, 72, 69, 82, 69, 32, 105, 100,
      32, 61, 32, 63, 10, 32, 32, 32, 32, 32, 32, 32, 32, 32, 32, 32, 32>>
\* get_user_files (database.py:184-189): SELECT id, filename, uploaded_at, boq_data, file_s...
GetUserFilesSql ==
    <<10, 32, 32, 32, 32, 32, 32, 32, 32, 32, 32, 32, 32, 32, 32, 32, 32, 83,
      69, 76, 69, 67, 84, 32, 105, 100, 44, 32, 102, 105, 108, 101, 110, 97,
      109, 101, 44, 32, 117, 112, 108, 111, 97, 100, 101, 100, 95, 97, 116,
      44, 32, 98, 111, 113, 95, 100, 97, 116, 97, 44, 32, 102, 105, 108, 101,
      95, 115, 105, 122, 101, 10, 32, 32, 32, 32, 32, 32, 32, 32, 32, 32, 32,
      32, 32, 32, 32, 32, 70, 82, 79, 77, 32, 102, 105, 108, 101, 115, 32,
      10, 32, 32, 32, 32, 32, 32, 32, 32, 32, 32, 32, 32, 32, 32, 32, 32, 87,
      72, 69, 82, 69, 32, 117, 115, 101, 114, 95, 105, 100, 32, 61, 32, 63,
      32, 10, 32, 32, 32, 32, 32, 32, 32, 32, 32, 32, 32, 32, 32, 32, 32, 32,
      79, 82, 68, 69, 82, 32, 66, 89, 32, 117, 112, 108, 111, 97, 100, 101,
      100, 95, 97, 116, 32, 68, 69, 83, 67, 10, 32, 32, 32, 32, 32, 32, 32,
      32, 32, 32, 32, 32>>
\* get_file_by_id (database.py:198-202): SELECT filepath, filename, boq_data FROM files WHE...
GetFileByIdSql ==
    <<10, 32, 32, 32, 32, 32, 32, 32, 32, 32, 32, 32, 32, 32, 32, 32, 32, 83,
      69, 76, 69, 67, 84, 32, 102, 105, 108, 101, 112, 97, 116, 104, 44, 32,
      102, 105, 108, 101, 110, 97, 109, 101, 44, 32, 98, 111, 113, 95, 100,
      97, 116, 97, 10, 32, 32, 32, 32, 32, 32, 32, 32, 32, 32, 32, 32, 32,
      32, 32, 32, 70, 82, 79, 77, 32, 102, 105, 108, 101, 115, 32, 10, 32,
      32, 32, 32, 32, 32, 32, 32, 32, 32, 32, 32, 32, 32, 32, 32, 87, 72, 69,
      82, 69, 32, 105, 100, 32, 61, 32, 63, 32, 65, 78, 68, 32, 117, 115,
      101, 114, 95, 105, 100, 32, 61, 32, 63, 10, 32, 32, 32, 32, 32, 32, 32,
      32, 32, 32, 32, 32>>
\* log_security_event (database.py:212-215): INSERT INTO security_logs ...
LogSecurityEventSql ==
    <<10, 32, 32, 32, 32, 32, 32, 32, 32, 32, 32, 32, 32, 32, 32, 32, 32, 73,
      78, 83, 69, 82, 84, 32, 73, 78, 84, 79, 32, 115, 101, 99, 117, 114,
      105, 116, 121, 95, 108, 111, 103, 115, 32, 40, 101, 118, 101, 110, 116,
      95, 116, 121, 112, 101, 44, 32, 105, 112, 95, 97, 100, 100, 114, 101,
      115, 115, 44, 32, 117, 115, 101, 114, 95, 105, 100, 44, 32, 100, 101,
      116, 97, 105, 108, 115, 44, 32, 115, 101, 118, 101, 114, 105, 116, 121,
      41, 10, 32, 32, 32, 32, 32, 32, 32, 32, 32, 32, 32, 32, 32, 32, 32, 32,
      86, 65, 76, 85, 69, 83, 32, 40, 63, 44, 32, 63, 44, 32, 63, 44, 32, 63,
      44, 32, 63, 41, 10, 32, 32, 32, 32, 32, 32, 32, 32, 32, 32, 32, 32>>
\* verify_file_integrity (database.py:238-238): SELECT file_hash FROM files WHERE id = ?
VerifyFileIntegritySql ==
    <<83, 69, 76, 69, 67, 84, 32, 102, 105, 108, 101, 95, 104, 97, 115, 104,
      32, 70, 82, 79, 77, 32, 102, 105, 108, 101, 115, 32, 87, 72, 69, 82,
      69, 32, 105, 100, 32, 61, 32, 63>>
\* cleanup_old_logs (database.py:223-226): DELETE FROM security_logs WHERE
\* timestamp < datetime('now', '-{} days'), before and behind the {}.
CleanupOldLogsSqlPrefix ==
    <<10, 32, 32, 32, 32, 32, 32, 32, 32, 32, 32, 32, 32, 32, 32, 32, 32, 68,
      69, 76, 69, 84, 69, 32, 70, 82, 79, 77, 32, 115, 101, 99, 117, 114,
      105, 116, 121, 95, 108, 111, 103, 115, 32, 10, 32, 32, 32, 32, 32, 32,
      32, 32, 32, 32, 32, 32, 32, 32, 32, 32, 87, 72, 69, 82, 69, 32, 116,
      105, 109, 101, 115, 116, 97, 109, 112, 32, 60, 32, 100, 97, 116, 101,
      116, 105, 109, 101, 40, 39, 110, 111, 119, 39, 44, 32, 39, 45>>
CleanupOldLogsSqlSuffix ==
    <<32, 100, 97, 121, 115, 39, 41, 10, 32, 32, 32, 32, 32, 32, 32, 32, 32,
      32, 32, 32>>

\* str(days) of "...".format(days), for days >= 0.
RECURSIVE Decimal(_)
Decimal(n) ==
    IF n < 10 THEN <<48 + n>> ELSE Decimal(n \div 10) \o <<48 + (n % 10)>>

CleanupOldLogsSql(days) ==
    CleanupOldLogsSqlPrefix \o Decimal(days) \o CleanupOldLogsSqlSuffix

\* The rows of table files (their id, user_id and filename columns) and of
\* table security_logs (timestamp, event_type).
FileIds == {"id-1", "id-2"}
FileRecords == [id : FileIds, user_id : Subjects, filename : {"a.pdf"}]
NoRecord == [id |-> "", user_id |-> "", filename |-> ""]
LogRow(t, event_type) == [timestamp |-> t, event_type |-> event_type]

\* execute_update / execute_query on the statement of a method
\* (database.py:132-152): "sanitized_sql = self._sanitize_sql(sql)" raises
\* before the statement reaches the connection, and the method catches every
\* exception.  Executes says whether the statement reaches the connection.
Executes ==
    [method \in {"insert_file", "update_file_boq", "get_user_files",
                 "get_file_by_id", "log_security_event"} |->
        _sanitize_sql(CASE method = "insert_file" -> InsertFileSql
                        [] method = "update_file_boq" -> UpdateFileBoqSql
                        [] method = "get_user_files" -> GetUserFilesSql
                        [] method = "get_file_by_id" -> GetFileByIdSql
                        [] method = "log_security_event"
                              -> LogSecurityEventSql).ok]
ExecutesCleanup ==
    [days \in 1..MaxDays |-> _sanitize_sql(CleanupOldLogsSql(days)).ok]

\* insert_file: ret is what it returns, files the table afterwards; the
\* primary key makes the INSERT of an id the table has fail.
insert_file(table, rec) ==
    IF Executes["insert_file"] /\ \A r \in table : r.id # rec.id
    THEN [ret |-> TRUE, files |-> table \cup {rec}]
    ELSE [ret |-> FALSE, files |-> table]

\* update_file_boq: the UPDATE changes columns that the rows here don't carry.
update_file_boq(table, file_id) ==
    [ret |-> Executes["update_file_boq"], files |-> table]

\* get_file_by_id: results[0], or None (NoRecord).
get_file_by_id(table, file_id, user_id) ==
    LET results == { r \in table : r.id = file_id /\ r.user_id = user_id } IN
    IF Executes["get_file_by_id"] /\ results # {}
    THEN CHOOSE r \in results : TRUE
    ELSE NoRecord

\* get_user_files: the rows of the user, or [] after an exception.
get_user_files(table, user_id) ==
    IF Executes["get_user_files"]
    THEN { r \in table : r.user_id = user_id }
    ELSE {}

\* SecureDatabase.log_security_event at time t: the table afterwards.
log_security_event(logs, event_type, t) ==
    IF Executes["log_security_event"]
    THEN Append(logs, LogRow(t, event_type))
    ELSE logs

\* cleanup_old_logs(days) at time t: the table afterwards.
cleanup_old_logs(logs, days, t) ==
    IF ExecutesCleanup[days]
    THEN SelectSeq(logs, LAMBDA row : ~(row.timestamp < t - days))
    ELSE logs

\* The statements that the methods of the class hand to execute_query and
\* execute_update.
OwnStatements ==
    {InsertFileSql, UpdateFileBoqSql, GetUserFilesSql, GetFileByIdSql,
     LogSecurityEventSql, VerifyFileIntegritySql} \cup
    {CleanupOldLogsSql(days) : days \in 1..MaxDays}

\* Whether _sanitize_sql returns each of them.
OwnStatementsPass == \A sql \in OwnStatements : _sanitize_sql(sql).ok

NoDbCall ==
    [op |-> "none", rec |-> NoRecord, days |-> 0, at |-> 0,
     ret |-> NoRecord, ok |-> TRUE, logs |-> << >>, inserted |-> {}]

(***************************************************************************)
(* The middleware stack  (main.py:13-17)                                   *)
(***************************************************************************)
SEC   == "SecurityMiddleware"
INPUT == "InputValidationMiddleware"
FILE  == "FileUploadSecurityMiddleware"
AUTH  == "AuthenticationMiddleware"

\* main.py:14-17: the add_middleware calls, in program order.  (The CORS
\* middleware of main.py:20-26 takes no decision of the pipeline.)
AddOrder == <<SEC, INPUT, FILE, AUTH>>

\* app.add_middleware(m): Starlette puts the new middleware in front of the
\* ones added before (user_middleware.insert(0, m)); the front of the list is
\* the outermost layer, the one a request meets first.
add_middleware(stack, m) ==
    <<m>> \o stack

RECURSIVE BuildStack(_)
BuildStack(n) ==
    IF n = 0 THEN << >> ELSE add_middleware(BuildStack(n - 1), AddOrder[n])

\* The stack a request traverses, outermost layer first.
MiddlewareStack == BuildStack(Len(AddOrder))

(***************************************************************************)
(* Requests                                                                *)
(***************************************************************************)
UPLOAD == "/api/generate-boq"
Paths == {"/", UPLOAD, "/api/files"}
Methods == {"GET", "POST", "DELETE"}
\* The Authorization header: absent (or not "Bearer ..."), or "Bearer" and a
\* token: one whose expiry has passed, one signed with another key, one that
\* generate_secure_token issued, one signed with the secret key that carries
\* no aud claim, one like it that carries a sub claim too.
Auths == {"none", "expired", "forged", "issued", "valid", "dual"}

\* token = auth_header.split(" ")[1]  (security_middleware.py:193)
BearerToken(auth) ==
    CASE auth = "expired" -> [key |-> SECRET, user_id |-> "user-42",
                              sub |-> "absent", exp |-> -1,
                              iss |-> "BOQMate", aud |-> "absent"]
      [] auth = "forged"  -> [key |-> "other_key", user_id |-> "user-42",
                              sub |-> "absent", exp |-> MaxTime + 1,
                              iss |-> "BOQMate", aud |-> "absent"]
      [] auth = "issued"  -> generate_secure_token("user-42", MaxTime + 1, 0)
      [] auth = "valid"   -> [key |-> SECRET, user_id |-> "user-42",
                              sub |-> "absent", exp |-> MaxTime + 1,
                              iss |-> "BOQMate", aud |-> "absent"]
      [] auth = "dual"    -> [key |-> SECRET, user_id |-> "user-42",
                              sub |-> "user-7", exp |-> MaxTime + 1,
                              iss |-> "BOQMate", aud |-> "absent"]
\* What reading the body gives: nothing, a text validate_input accepts, a text
\* it refuses, an exception.
Bodies == {"empty", "ok", "bad", "raises"}

\* The file names of the uploads.
UploadNames == {
    <<97, 46, 112, 100, 102>>,                    \* a.pdf
    <<46, 46, 47, 97, 46, 112, 100, 102>>,        \* ../a.pdf
    <<97, 46, 112, 100, 102, 63>>,                \* a.pdf?
    <<97, 46, 101, 120, 101>>                     \* a.exe
}

\* What file_content.decode('utf-8', errors='ignore') gives for the uploads
\* (security_middleware.py:138): a short text without a signature, a text
\* with one, a text without one that is longer than the cap of
\* _validate_string.  (The decoded text of a file longer than 50 MiB can be
\* any of them: the bytes that are not UTF-8 are dropped.)
UploadContents == {"plain", "script", "long"}
ContentText(content) ==
    CASE content = "plain"  -> <<97, 32, 98>>
      [] content = "script" -> <<60, 115, 99, 114, 105, 112, 116, 62, 120,
                                 60, 47, 115, 99, 114, 105, 112, 116, 62>>
      [] content = "long"   -> [i \in 1..(MaxTextLength + 1) |-> 97]
      [] OTHER              -> << >>

\* security_manager.validate_input(file_content_str)
ContentOk ==
    [plain  |-> validate_input(Str(ContentText("plain"))),
     script |-> validate_input(Str(ContentText("script"))),
     long   |-> validate_input(Str(ContentText("long")))]

\* The multipart form of an upload: whether request.form() raises, whether it
\* has a "file" field, its filename, whether sanitize_filename changes the
\* filename, whether validate_file_type accepts the filename, whether the
\* content is longer than 50 MiB, the decoded content, its length, whether
\* validate_input accepts it.
NoFile == [raises |-> FALSE, present |-> FALSE, name |-> << >>,
           dirty |-> FALSE, extOk |-> TRUE, large |-> FALSE,
           content |-> "", chars |-> 0, contentOk |-> TRUE]
Files ==
    { NoFile, [NoFile EXCEPT !.raises = TRUE] } \cup
    { [raises |-> FALSE, present |-> TRUE, name |-> n,
       dirty |-> sanitize_filename(n) # n,
       extOk |-> validate_file_type(n, allowed_extensions),
       large |-> l, content |-> c, chars |-> Len(ContentText(c)),
       contentOk |-> ContentOk[c]] :
         n \in UploadNames, l \in BOOLEAN, c \in UploadContents }

\* What arrives with the request line and the headers of a request; large
\* says that it uploads a file longer than 50 MiB.  The body, the query
\* parameters and the form are read by the stage that validates them and are
\* "unread" or absent until then.
RequestLines ==
    { r \in [ip : Clients, path : Paths, method : Methods, auth : Auths,
             large : BOOLEAN] :
         r.large => r.path = UPLOAD /\ r.method = "POST" }

\* The requests of the concurrent specification: authenticated reads of a
\* protected route.
ConcRequestLines ==
    { r \in RequestLines :
         r.method = "GET" /\ r.auth = "valid" /\ r.path = "/api/files" }

NewRequest(line) ==
    [ip |-> line.ip, path |-> line.path, method |-> line.method,
     auth |-> line.auth, large |-> line.large, body |-> "unread",
     queryOk |-> TRUE, file |-> NoFile, catOk |-> TRUE]

\* The body of an upload holds the form fields verbatim: a form with a file
\* has a body, and a file longer than 50 MiB, a content or a categories value
\* that validate_input refuses make a body that validate_input refuses.
Coherent(body, file, catOk) ==
    /\ (file.present => body # "empty")
    /\ (file.large \/ ~file.contentOk \/ ~catOk
           => body \in {"unread", "bad", "raises"})

IdleTask ==
    [pc |-> "idle", depth |-> 0,
     req |-> NewRequest([ip |-> "ip1", path |-> "/", method |-> "GET",
                         auth |-> "none", large |-> FALSE]),
     blockedAtStart |-> FALSE, trace |-> << >>, events |-> << >>,
     status |-> 0, rejectedBy |-> "", handled |-> FALSE, headers |-> FALSE,
     user_id |-> "unset", raised |-> << >>, leak |-> FALSE,
     stored |-> << >>, dep |-> "", actor |-> "unset"]

(***************************************************************************)
(* Steps common to the middlewares                                         *)
(***************************************************************************)
\* Fault of a rejection: the response is built but not returned, and the
\* request goes on to the next layer.
Reject_fallsThrough(r, mw, code, evs) ==
    [r EXCEPT !.depth = r.depth + 1, !.status = code,
              !.rejectedBy = mw, !.events = r.events \o evs]

\* "return JSONResponse(status_code=code, ...)" in middleware mw: the response
\* goes back through the layers outside mw; nothing inside mw runs.
Reject(r, mw, code, evs) ==
    [r EXCEPT !.pc = "up", !.depth = r.depth - 1, !.status = code,
              !.rejectedBy = mw, !.events = r.events \o evs]

\* An exception is raised in a stage (caught there or not).
Raised(r, stage) ==
    [r EXCEPT !.raised = Append(r.raised, stage)]

\* An exception leaves the middleware of a stage uncaught: it passes through
\* the pending call_next of every layer outside it, none of which catches
\* it, and the server answers 500 "Internal Server Error".
Raise(r, stage) ==
    [Raised(r, stage) EXCEPT !.pc = "up", !.depth = 0, !.status = 500]

\* "response = await call_next(request)": the next layer inwards runs.
CallNext(r) ==
    [r EXCEPT !.depth = r.depth + 1]

Stage(r, name) ==
    [r EXCEPT !.trace = Append(r.trace, name)]

AtLayer(t, mw) ==
    /\ task[t].pc = "down"
    /\ task[t].depth \in 1..Len(MiddlewareStack)
    /\ MiddlewareStack[task[t].depth] = mw

(***************************************************************************)
(* SecurityMiddleware.dispatch  (security_middleware.py:11-47)             *)
(***************************************************************************)
SecurityDispatch(t) ==
    /\ AtLayer(t, SEC)
    /\ LET r  == Stage(Stage(task[t], "resolve"), "block")
           ip == r.req.ip
       IN
       IF is_ip_blocked(ip)
       THEN /\ task' = [task EXCEPT ![t] =
                           Reject(r, SEC, 403, <<"BLOCKED_IP_ACCESS">>)]
            /\ UNCHANGED <<request_history, blocked_ips, admitted>>
       ELSE /\ check_rate_limit(ip)
            /\ task' = [task EXCEPT ![t] =
                           IF RateLimitResult(ip)
                           THEN CallNext(Stage(r, "rate"))
                           ELSE Reject(Stage(r, "rate"), SEC, 429, << >>)]
    /\ UNCHANGED <<now, callLog>>
    /\ UNCHANGED fnvars

(***************************************************************************)
(* InputValidationMiddleware.dispatch  (security_middleware.py:49-87)      *)
(***************************************************************************)
\* body: the body of the request, which "await request.body()" and
\* "body.decode()" read on POST, PUT and PATCH only and whose exceptions are
\* caught and logged (security_middleware.py:69-70); queryOk: whether
\* validate_input accepts every query parameter.
InputValidationOutcome(r0, body, queryOk) ==
    LET reads == r0.req.method \in {"POST", "PUT", "PATCH"}
        r1 == [Stage(r0, "input") EXCEPT
                  !.req.body = body, !.req.queryOk = queryOk]
        r == IF reads /\ body = "raises" THEN Raised(r1, "input") ELSE r1
    IN
    IF reads /\ body = "bad"
    THEN Reject(r, INPUT, 400, <<"MALICIOUS_INPUT">>)
    ELSE IF ~queryOk
    THEN Reject(r, INPUT, 400, <<"MALICIOUS_QUERY_PARAM">>)
    ELSE CallNext(r)

InputValidationDispatch(t) ==
    /\ AtLayer(t, INPUT)
    /\ \E body \in Bodies, queryOk \in BOOLEAN :
          /\ task[t].req.method = "GET" => body = "empty"
          /\ Coherent(body, task[t].req.file, task[t].req.catOk)
          /\ task' = [task EXCEPT ![t] =
                         InputValidationOutcome(task[t], body, queryOk)]
    /\ UNCHANGED rlvars
    /\ UNCHANGED fnvars

(***************************************************************************)
(* FileUploadSecurityMiddleware.dispatch  (security_middleware.py:89-170)  *)
(***************************************************************************)
\* f: the form "await request.form()" gives; catOk: whether validate_input
\* accepts its categories field (TRUE when the field is absent).
FileUploadOutcome(r0, f, catOk) ==
    LET r    == [Stage(r0, "upload") EXCEPT !.req.file = f, !.req.catOk = catOk]
        susp == IF f.present /\ f.dirty
                THEN <<"SUSPICIOUS_FILENAME">> ELSE << >>
    IN
    IF ~(r0.req.path = UPLOAD /\ r0.req.method = "POST") THEN CallNext(r0)
    ELSE IF f.raises THEN Reject(Raised(r, "upload"), FILE, 400, << >>)
    ELSE IF f.present /\ ~f.extOk
    THEN Reject(r, FILE, 400, susp \o <<"INVALID_FILE_TYPE">>)
    ELSE IF f.present /\ f.large
    THEN Reject(r, FILE, 413, susp \o <<"FILE_TOO_LARGE">>)
    ELSE IF f.present /\ ~f.contentOk
    THEN Reject(r, FILE, 400, susp \o <<"MALICIOUS_FILE_CONTENT">>)
    ELSE IF ~catOk
    THEN Reject(r, FILE, 400, susp \o <<"MALICIOUS_CATEGORIES">>)
    ELSE CallNext([r EXCEPT !.events = r.events \o susp])

FileUploadDispatch(t) ==
    /\ AtLayer(t, FILE)
    /\ \E f \in Files, catOk \in BOOLEAN :
          /\ ~(task[t].req.path = UPLOAD /\ task[t].req.method = "POST")
                => f = NoFile /\ catOk
          /\ Coherent(task[t].req.body, f, catOk)
          /\ task[t].req.large => f.raises \/ (f.present /\ f.large)
          /\ f.large => task[t].req.large
          /\ task' = [task EXCEPT ![t] = FileUploadOutcome(task[t], f, catOk)]
    /\ UNCHANGED rlvars
    /\ UNCHANGED fnvars

(***************************************************************************)
(* AuthenticationMiddleware.dispatch  (security_middleware.py:172-211)     *)
(***************************************************************************)
public_paths == {"/", "/health", "/api/categories"}

AuthenticationOutcome(r0) ==
    LET r       == Stage(r0, "auth")
        token   == BearerToken(r0.req.auth)
        payload == verify_token(token, now)
    IN
    IF r0.req.path \in public_paths THEN CallNext(r0)
    ELSE IF r.req.auth = "none"
    THEN Reject(r, AUTH, 401, <<"MISSING_AUTH">>)
    ELSE IF payload = "AttributeError" THEN Raise(r, "auth")
    ELSE IF payload = "None"
    THEN Reject(r, AUTH, 401, <<"INVALID_TOKEN">>)
    ELSE CallNext([r EXCEPT !.user_id = token.user_id])

AuthenticationDispatch(t) ==
    /\ AtLayer(t, AUTH)
    /\ task' = [task EXCEPT ![t] = AuthenticationOutcome(task[t])]
    /\ UNCHANGED rlvars
    /\ UNCHANGED fnvars

(***************************************************************************)
(* The application inside the stack, and the way back                      *)
(***************************************************************************)
\* The routes outside the public set declare
\* "user_id: str = Depends(get_current_user)" (routes/files.py:25, 101, 124,
\* 159); FastAPI resolves it before the handler body runs and answers with
\* the HTTPException that the dependency raises (401; the detail carries
\* str(e) in its last two except clauses).  dep: what get_current_user gives
\* for the token of the request, "public" on a route without the dependency.
\* generate_boq writes the upload to "<file_id>_<file.filename>" and then
\* calls db.insert_file; when that returns False, the HTTPException it
\* raises is caught by its own "except Exception" and answered with 500 and
\* str(e) (routes/files.py:31-53, 80-84).  inserted: what insert_file
\* returned.
HandlerOutcome(r0, dep, inserted) ==
    LET r == [Stage(r0, "handler") EXCEPT
                 !.pc = "up", !.depth = Len(MiddlewareStack),
                 !.handled = TRUE,
                 !.dep = IF dep.raises # "" THEN dep.raises
                         ELSE IF dep.user_id = "unset" THEN "public"
                         ELSE "user",
                 !.actor = dep.user_id]
        upload == /\ r0.req.path = UPLOAD
                  /\ r0.req.method = "POST"
                  /\ r0.req.file.present
    IN
    IF dep.raises \in {"Exception", "JWTError"}
    THEN [(IF dep.raises = "Exception" THEN Raised(r, "handler") ELSE r)
             EXCEPT !.status = 401, !.leak = TRUE]
    ELSE IF dep.raises \in {"ExpiredSignatureError", "HTTPException"}
    THEN [r EXCEPT !.status = 401]
    ELSE IF upload /\ ~inserted
    THEN [Raised(r, "handler") EXCEPT
             !.status = 500, !.leak = TRUE, !.stored = r0.req.file.name]
    ELSE [r EXCEPT !.status = 200,
                   !.stored = IF upload THEN r0.req.file.name ELSE << >>]

\* file_id = str(uuid.uuid4())
NewFileId(table) ==
    IF \E i \in FileIds : \A r \in table : r.id # i
    THEN CHOOSE i \in FileIds : \A r \in table : r.id # i
    ELSE "id-1"

\* What the dependency of the route gives: the routes in the public set
\* have none; without a "Bearer ..." header get_current_user raises its
\* first HTTPException (auth.py:14-19), which its try block does not cover.
Dependency(req, secret, t) ==
    IF req.path \in public_paths THEN [raises |-> "", user_id |-> "unset"]
    ELSE IF req.auth = "none"
    THEN [raises |-> "HTTPException", user_id |-> ""]
    ELSE get_current_user(BearerToken(req.auth), secret, t)

\* The innermost call_next reaches the router, which runs the route handler.
\* secret: the value SUPABASE_JWT_SECRET has in the deployment.
Handler(t) ==
    /\ task[t].pc = "down"
    /\ task[t].depth = Len(MiddlewareStack) + 1
    /\ \E secret \in DependencySecrets :
          LET r0  == task[t]
              dep == Dependency(r0.req, secret, now)
              inserts == /\ dep.raises = ""
                         /\ r0.req.path = UPLOAD /\ r0.req.method = "POST"
                         /\ r0.req.file.present
              ins == IF inserts
                     THEN insert_file(files, [id |-> NewFileId(files),
                                              user_id |-> dep.user_id,
                                              filename |-> "a.pdf"])
                     ELSE [ret |-> FALSE, files |-> files]
          IN
          /\ files' = ins.files
          /\ task' = [task EXCEPT ![t] = HandlerOutcome(r0, dep, ins.ret)]
    /\ UNCHANGED rlvars
    /\ UNCHANGED <<security_logs, tok, fn, dbcall>>

\* The response returns through the layers whose call_next is pending
\* (layers 1..depth); SecurityMiddleware sets the security headers on a
\* response it got from call_next (security_middleware.py:36-47), the other
\* middlewares return it as it is.
Respond(t) ==
    /\ task[t].pc = "up"
    /\ task' = [task EXCEPT ![t] =
          [task[t] EXCEPT
              !.pc = "done", !.depth = 0,
              !.headers = \E i \in 1..task[t].depth :
                              MiddlewareStack[i] = SEC]]
    /\ UNCHANGED rlvars
    /\ UNCHANGED fnvars

\* A request arrives and enters the outermost layer.
Start(t, line) ==
    /\ task[t].pc \in {"idle", "done"}
    /\ task' = [task EXCEPT ![t] =
          [IdleTask EXCEPT !.pc = "down", !.depth = 1,
                           !.req = NewRequest(line),
                           !.blockedAtStart = is_ip_blocked(line.ip)]]
    /\ UNCHANGED rlvars
    /\ UNCHANGED fnvars

\* One step of task t.  A task yields to the other tasks only at an await
\* (request.body(), request.form(), file.read(), call_next); the code of a
\* middleware before its call_next touches the shared state (request_history,
\* blocked_ips) only in SecurityMiddleware, between whose block-list check and
\* rate-limit check there is no await, so each middleware's code up to its
\* call_next or return is one step.
Step(t) ==
    \/ SecurityDispatch(t)
    \/ InputValidationDispatch(t)
    \/ FileUploadDispatch(t)
    \/ AuthenticationDispatch(t)
    \/ Handler(t)
    \/ Respond(t)

(***************************************************************************)
(* The clock                                                               *)
(***************************************************************************)
Tick ==
    /\ now < MaxTime
    /\ now' = now + 1
    /\ admitted' = [ip \in Identities |->
                       SelectSeq(admitted[ip],
                                 LAMBDA s : now + 1 - s < rate_limit_window)]
    /\ UNCHANGED <<request_history, blocked_ips, callLog, task>>
    /\ UNCHANGED fnvars

(***************************************************************************)
(* Specifications                                                          *)
(***************************************************************************)
Init ==
    /\ now = 0
    /\ request_history = << >>
    /\ blocked_ips = {}
    /\ admitted = [ip \in Identities |-> << >>]
    /\ callLog = [ip \in Identities |-> << >>]
    /\ task = [t \in Tasks |-> IdleTask]
    /\ security_logs = << >>
    /\ tok = NoToken
    /\ fn = NoCall
    /\ files = {}
    /\ dbcall = NoDbCall

\* SpecRL: the rate limiter called directly.
CallCheckRateLimit(ip) ==
    /\ Len(callLog[ip]) < MaxCalls
    /\ check_rate_limit(ip)
    /\ callLog' = [callLog EXCEPT ![ip] =
          Append(@, [t       |-> now,
                     res     |-> RateLimitResult(ip),
                     empty   |-> HistoryOf(ip) = << >>,
                     blocked |-> ip \in blocked_ips'])]
    /\ UNCHANGED <<now, task>>
    /\ UNCHANGED fnvars

NextRL ==
    \/ \E ip \in Identities : CallCheckRateLimit(ip)
    \/ Tick

SpecRL == Init /\ [][NextRL]_vars

\* Spec: the pipeline serving one request after the other.
Next ==
    \/ \E line \in RequestLines : Start(1, line)
    \/ Step(1)
    \/ Tick

Spec == Init /\ [][Next]_vars

\* SpecConc: the pipeline serving NumTasks requests concurrently; a task
\* yields to the others only where its middleware awaits.
NextConc ==
    \/ \E t \in Tasks : \E line \in ConcRequestLines : Start(t, line)
    \/ \E t \in Tasks : Step(t)
    \/ Tick

SpecConc == Init /\ [][NextConc]_vars

(***************************************************************************)
(* SpecFn: the functions of SecurityManager called directly                *)
(***************************************************************************)
Seqs(A, n) == UNION { [1..k -> A] : k \in 0..n }

\* File names: every string of at most MaxNameLen of the characters
\* . / \ : a, the name "....//", and two names longer than
\* MaxFilenameLength.
NameAlphabet == {46, 47, 92, 58, 97}
LongName == [i \in 1..(MaxFilenameLength + 45) |-> 97]
NestedTraversal == <<46, 46, 46, 46, 47, 47>>
FileNameInputs ==
    Seqs(NameAlphabet, MaxNameLen) \cup
    {NestedTraversal, LongName, DotDotSlash \o LongName}

\* Texts: the three texts below, every concatenation of at most MaxWords of
\* the words, and texts of MaxTextLength and of MaxTextLength + 1 characters.
ScriptTag ==        \* <script>alert(1)</script>
    <<60, 115, 99, 114, 105, 112, 116, 62, 97, 108, 101, 114, 116, 40, 49,
      41, 60, 47, 115, 99, 114, 105, 112, 116, 62>>
DropTable ==        \* '; DROP TABLE users; --
    <<39, 59, 32, 68, 82, 79, 80, 32, 84, 65, 66, 76, 69, 32, 117, 115, 101,
      114, 115, 59, 32, 45, 45>>
SteelBeams ==       \* Install 3 steel beams, 200mm x 400mm
    <<73, 110, 115, 116, 97, 108, 108, 32, 51, 32, 115, 116, 101, 101, 108,
      32, 98, 101, 97, 109, 115, 44, 32, 50, 48, 48, 109, 109, 32, 120, 32,
      52, 48, 48, 109, 109>>
Words == {
    <<60, 115, 99, 114, 105, 112, 116, 62>>,            \* <script>
    <<60, 47, 83, 67, 82, 73, 80, 84, 62>>,             \* </SCRIPT>
    <<68, 114, 111, 112>>,                              \* Drop
    <<32>>,                                             \* a space
    <<116, 97, 98, 108, 101>>,                          \* table
    <<39, 59>>,                                         \* ';
    <<97>>,                                             \* a
    <<9>>,                                              \* a tab
    <<1>>,                                              \* the control character 1
    <<10>>                                              \* a newline
}
RECURSIVE Phrases(_)
Phrases(n) ==
    IF n = 0 THEN { << >> }
    ELSE Phrases(n - 1) \cup { ph \o w : ph \in Phrases(n - 1), w \in Words }
LongText(n) == [i \in 1..n |-> 120]
TextInputs ==
    Phrases(MaxWords) \cup
    {ScriptTag, DropTable, SteelBeams,
     LongText(MaxTextLength), LongText(MaxTextLength + 1)}

\* X-Forwarded-For headers: absent, or a value of at most MaxHeaderLen of the
\* characters space , 1 2; the peer address is "peer".
HeaderAlphabet == {32, 44, 49, 50}
HeaderInputs ==
    { [present |-> FALSE, value |-> << >>] } \cup
    { [present |-> TRUE, value |-> v] : v \in Seqs(HeaderAlphabet, MaxHeaderLen) }
PeerHost == <<112, 101, 101, 114>>

\* Nested data: every dict and list of at most MaxNodes nodes (values and
\* containers, itself included) whose leaves are the text "a", the text
\* "';--" and a value that is no text.
SafeText == <<97>>
UnsafeText == <<39, 59, 45, 45>>
Leaves == {Str(SafeText), Str(UnsafeText), Other}
RECURSIVE Trees(_)
RECURSIVE Forests(_)
\* The sequences of data that have m nodes together.
Forests(m) ==
    IF m = 0 THEN { << >> }
    ELSE UNION { { <<d>> \o f : d \in Trees(j), f \in Forests(m - j) } :
                    j \in 1..m }
\* The data of n nodes.
Trees(n) ==
    (IF n = 1 THEN Leaves ELSE {}) \cup
    { Dict(f) : f \in Forests(n - 1) } \cup { List(f) : f \in Forests(n - 1) }
DataInputs == UNION { Trees(n) : n \in 1..MaxNodes } \ Leaves

PendingCalls ==
    { [NoCall EXCEPT !.op = "sanitize_filename", !.done = FALSE, !.arg = f] :
         f \in FileNameInputs } \cup
    { [NoCall EXCEPT !.op = "validate_input", !.done = FALSE, !.arg = x,
                     !.data = Str(x)] :
         x \in TextInputs } \cup
    { [NoCall EXCEPT !.op = "validate_data", !.done = FALSE, !.data = d] :
         d \in DataInputs } \cup
    { [NoCall EXCEPT !.op = "get_client_ip", !.done = FALSE,
                     !.arg = h.value, !.present = h.present,
                     !.host = PeerHost] :
         h \in HeaderInputs }

\* The state before one call of a string function, or (NoCall) before the
\* calls of the token functions.
InitFn ==
    /\ now = 0
    /\ request_history = << >>
    /\ blocked_ips = {}
    /\ admitted = [ip \in Identities |-> << >>]
    /\ callLog = [ip \in Identities |-> << >>]
    /\ task = [t \in Tasks |-> IdleTask]
    /\ security_logs = << >>
    /\ tok = NoToken
    /\ fn \in PendingCalls \cup {NoCall}
    /\ files = {}
    /\ dbcall = NoDbCall

CallSanitizeFilename ==
    /\ fn.op = "sanitize_filename" /\ ~fn.done
    /\ fn' = [fn EXCEPT !.done = TRUE, !.res = sanitize_filename(fn.arg)]
    /\ UNCHANGED <<rlvars, task, security_logs, tok, files, dbcall>>

\* validate_input(text)
CallValidateInput ==
    /\ fn.op = "validate_input" /\ ~fn.done
    /\ fn' = [fn EXCEPT !.done = TRUE, !.ok = validate_input(fn.data),
                        !.checks = ValidateStringChecks(fn.arg)]
    /\ UNCHANGED <<rlvars, task, security_logs, tok, files, dbcall>>

\* validate_input(data) for a dict or a list
CallValidateData ==
    /\ fn.op = "validate_data" /\ ~fn.done
    /\ fn' = [fn EXCEPT !.done = TRUE, !.ok = validate_input(fn.data)]
    /\ UNCHANGED <<rlvars, task, security_logs, tok, files, dbcall>>

CallGetClientIp ==
    /\ fn.op = "get_client_ip" /\ ~fn.done
    /\ fn' = [fn EXCEPT !.done = TRUE,
                 !.res = get_client_ip([present |-> fn.present,
                                        value |-> fn.arg], fn.host)]
    /\ UNCHANGED <<rlvars, task, security_logs, tok, files, dbcall>>

\* token = generate_secure_token(user_id, expires_in)
IssueToken(user_id, expires_in) ==
    /\ fn = NoCall
    /\ tok' = [state |-> "issued",
               token |-> generate_secure_token(user_id, expires_in, now),
               subject |-> user_id, issuedAt |-> now, ttl |-> expires_in,
               result |-> "", at |-> now]
    /\ UNCHANGED <<rlvars, task, security_logs, fn, files, dbcall>>

\* A token that somebody else made is presented.
PresentToken(token) ==
    /\ fn = NoCall
    /\ tok.state = "none"
    /\ tok' = [state |-> "presented", token |-> token,
               subject |-> token.user_id, issuedAt |-> 0, ttl |-> 0,
               result |-> "", at |-> now]
    /\ UNCHANGED <<rlvars, task, security_logs, fn, files, dbcall>>

\* verify_token(token) on the token issued or presented last.
VerifyToken ==
    /\ tok.state # "none"
    /\ tok' = [tok EXCEPT !.result = verify_token(tok.token, now), !.at = now]
    /\ UNCHANGED <<rlvars, task, security_logs, fn, files, dbcall>>

TickFn ==
    /\ fn = NoCall
    /\ Tick

NextFn ==
    \/ CallSanitizeFilename
    \/ CallValidateInput
    \/ CallValidateData
    \/ CallGetClientIp
    \/ \E user_id \in Subjects : \E expires_in \in 1..MaxTtl :
          IssueToken(user_id, expires_in)
    \/ \E token \in Tokens : PresentToken(token)
    \/ VerifyToken
    \/ TickFn

SpecFn == InitFn /\ [][NextFn]_vars

(***************************************************************************)
(* SpecDb: the methods of SecureDatabase called directly                   *)
(***************************************************************************)
\* The rows that security_logs can hold when the database file is opened
\* (CREATE TABLE IF NOT EXISTS keeps them): in the order of their ids, which
\* is the order of their timestamps.
StoredLogs ==
    { q \in UNION { [1..n -> { LogRow(-a, "MISSING_AUTH") : a \in 0..MaxAge }] :
                       n \in 0..MaxRows } :
         \A i \in 1..(Len(q) - 1) : q[i].timestamp <= q[i + 1].timestamp }

\* The rows that files can hold then.
StoredFiles ==
    { {}, {[id |-> "id-2", user_id |-> "user-7", filename |-> "a.pdf"]} }

InitDb ==
    /\ now = 0
    /\ request_history = << >>
    /\ blocked_ips = {}
    /\ admitted = [ip \in Identities |-> << >>]
    /\ callLog = [ip \in Identities |-> << >>]
    /\ task = [t \in Tasks |-> IdleTask]
    /\ security_logs \in StoredLogs
    /\ tok = NoToken
    /\ fn = NoCall
    /\ files \in StoredFiles
    /\ dbcall = NoDbCall

\* What SpecDb leaves alone.
nodbvars == <<now, request_history, blocked_ips, admitted, callLog, task,
              tok, fn>>

\* db.insert_file(rec.id, rec.user_id, rec.filename, ...)
CallInsertFile(rec) ==
    /\ files' = insert_file(files, rec).files
    /\ dbcall' = [NoDbCall EXCEPT
                     !.op = "insert_file", !.rec = rec, !.at = now,
                     !.ok = insert_file(files, rec).ret,
                     !.inserted = dbcall.inserted \cup
                        IF \A r \in files : r.id # rec.id THEN {rec} ELSE {}]
    /\ UNCHANGED <<nodbvars, security_logs>>

\* db.get_file_by_id(rec.id, rec.user_id)
CallGetFileById(rec) ==
    /\ dbcall' = [NoDbCall EXCEPT
                     !.op = "get_file_by_id", !.rec = rec, !.at = now,
                     !.ret = get_file_by_id(files, rec.id, rec.user_id),
                     !.inserted = dbcall.inserted]
    /\ UNCHANGED <<nodbvars, security_logs, files>>

\* db.update_file_boq(rec.id, boq_data)
CallUpdateFileBoq(rec) ==
    /\ files' = update_file_boq(files, rec.id).files
    /\ dbcall' = [NoDbCall EXCEPT
                     !.op = "update_file_boq", !.rec = rec, !.at = now,
                     !.ok = update_file_boq(files, rec.id).ret,
                     !.inserted = dbcall.inserted]
    /\ UNCHANGED <<nodbvars, security_logs>>

\* db.log_security_event(event_type, ...)
CallLogSecurityEvent(event_type) ==
    /\ Len(security_logs) < MaxRows + 1
    /\ security_logs' = log_security_event(security_logs, event_type, now)
    /\ dbcall' = [NoDbCall EXCEPT
                     !.op = "log_security_event", !.at = now,
                     !.logs = security_logs, !.inserted = dbcall.inserted]
    /\ UNCHANGED <<nodbvars, files>>

\* db.cleanup_old_logs(days)
CallCleanupOldLogs(days) ==
    /\ security_logs' = cleanup_old_logs(security_logs, days, now)
    /\ dbcall' = [NoDbCall EXCEPT
                     !.op = "cleanup_old_logs", !.days = days, !.at = now,
                     !.logs = security_logs, !.inserted = dbcall.inserted]
    /\ UNCHANGED <<nodbvars, files>>

TickDb ==
    /\ Tick

NextDb ==
    \/ \E rec \in FileRecords : CallInsertFile(rec)
    \/ \E rec \in FileRecords : CallGetFileById(rec)
    \/ \E rec \in FileRecords : CallUpdateFileBoq(rec)
    \/ CallLogSecurityEvent("MISSING_AUTH")
    \/ \E days \in 1..MaxDays : CallCleanupOldLogs(days)
    \/ TickDb

SpecDb == InitDb /\ [][NextDb]_vars

(***************************************************************************)
(* Properties of the rate limiter  (checked under SpecRL)                  *)
(***************************************************************************)
Log(ip) == callLog[ip]

\* C1: starting from an empty history of ip, the calls of check_rate_limit(ip)
\* made inside one window return true up to the rate_limit_requests-th, and
\* the next one inside that window returns false and leaves ip blocked.
C1_WindowAdmitsExactlyMax ==
    \A ip \in Identities : \A i, j \in 1..Len(Log(ip)) :
        ( /\ Log(ip)[i].empty
          /\ i <= j
          /\ Log(ip)[j].t - Log(ip)[i].t < rate_limit_window )
        => /\ (j - i < rate_limit_requests => Log(ip)[j].res)
           /\ (j - i = rate_limit_requests
                  => ~Log(ip)[j].res /\ Log(ip)[j].blocked
                     /\ ip \in blocked_ips)

\* A run of rate_limit_requests + 1 calls inside one window has been made.
C1_Witness ==
    \E ip \in Identities : \E i \in 1..Len(Log(ip)) :
        /\ Log(ip)[i].empty
        /\ i + rate_limit_requests <= Len(Log(ip))
        /\ Log(ip)[i + rate_limit_requests].t - Log(ip)[i].t
              < rate_limit_window
        /\ ~Log(ip)[i + rate_limit_requests].res

\* C2: for every identity, the admitted requests whose timestamps lie in the
\* trailing window never number more than rate_limit_requests, and neither
\* does the stored history.
C2_NeverMoreThanMaxInWindow ==
    \A ip \in Identities :
        /\ Len(admitted[ip]) <= rate_limit_requests
        /\ Len(HistoryOf(ip)) <= rate_limit_requests

\* A window is full, a call was refused, and the clock has moved since the
\* first admission.
C2_Witness ==
    \E ip \in Identities :
        /\ Len(admitted[ip]) = rate_limit_requests
        /\ admitted[ip][1] < now
        /\ \E k \in 1..Len(Log(ip)) : ~Log(ip)[k].res

\* C9: when a call for ip returned false and the next call for ip comes more
\* than rate_limit_window later, that call returns true.
C9_AdmittedAgainAfterWindow ==
    \A ip \in Identities : \A k \in 1..(Len(Log(ip)) - 1) :
        ( /\ ~Log(ip)[k].res
          /\ Log(ip)[k + 1].t - Log(ip)[k].t > rate_limit_window )
        => Log(ip)[k + 1].res

\* A refused call followed, more than a window later, by the next call.
C9_Witness ==
    \E ip \in Identities : \E k \in 1..(Len(Log(ip)) - 1) :
        /\ ~Log(ip)[k].res
        /\ Log(ip)[k + 1].t - Log(ip)[k].t > rate_limit_window
        /\ Log(ip)[k + 1].res

(***************************************************************************)
(* Properties of the pipeline under concurrency  (checked under SpecConc)  *)
(***************************************************************************)
\* C3: with one task per request running concurrently, the requests of one
\* identity admitted within a window never number more than
\* rate_limit_requests, and every admission is recorded in the history (no
\* task's update is lost to another's).
C3_NoOverAdmissionUnderConcurrency ==
    \A ip \in Identities :
        /\ Len(admitted[ip]) <= rate_limit_requests
        /\ PurgeOld(HistoryOf(ip), now) = admitted[ip]

\* While an admitted request of an identity is still in flight, with the
\* window full, another request of the same identity is refused.
C3_Witness ==
    \E t1, t2 \in Tasks :
        /\ t1 # t2
        /\ task[t1].req.ip = task[t2].req.ip
        /\ task[t1].pc = "up" /\ task[t1].status = 429
        /\ task[t2].pc = "down" /\ task[t2].depth = Len(MiddlewareStack) + 1
        /\ Len(admitted[task[t1].req.ip]) = rate_limit_requests

(***************************************************************************)
(* Properties of the pipeline  (checked under Spec)                        *)
(***************************************************************************)
\* The position of a stage in the order the specification gives.
Rank(stage) ==
    CASE stage = "resolve" -> 1
      [] stage = "block"   -> 2
      [] stage = "rate"    -> 3
      [] stage = "input"   -> 4
      [] stage = "upload"  -> 5
      [] stage = "auth"    -> 6
      [] stage = "handler" -> 7

\* C4: the stages of every request run in the order identity resolution,
\* block-list check, rate limiting, input validation, upload policy, token
\* authentication, handler; identity resolution is the first stage to run.
C4_StagesInOrder ==
    \A t \in Tasks :
        LET tr == task[t].trace IN
        /\ \A i, j \in 1..Len(tr) : i < j => Rank(tr[i]) < Rank(tr[j])
        /\ (tr # << >> => tr[1] = "resolve")

\* The stage at which a rejected request was turned down.
RejectingStage(r) ==
    CASE r.rejectedBy = SEC /\ r.status = 403 -> "block"
      [] r.rejectedBy = SEC /\ r.status # 403 -> "rate"
      [] r.rejectedBy = INPUT -> "input"
      [] r.rejectedBy = FILE -> "upload"
      [] r.rejectedBy = AUTH -> "auth"

Rejected(t) == task[t].rejectedBy # ""
Done(t) == task[t].pc = "done"

\* C5: once a stage has rejected a request, the rejecting stage stays the
\* last stage that ran for it, and its handler is never invoked.
C5_NothingRunsAfterRejection ==
    \A t \in Tasks :
        Rejected(t)
        => /\ task[t].status \in {400, 401, 403, 413, 429}
           /\ task[t].trace # << >>
           /\ task[t].trace[Len(task[t].trace)] = RejectingStage(task[t])
           /\ ~task[t].handled

\* A request rejected by the outermost layer, with the whole stack still
\* ahead of it, has been answered.
C5_Witness ==
    \E t \in Tasks :
        /\ Done(t) /\ Rejected(t)
        /\ task[t].rejectedBy = MiddlewareStack[1]
        /\ task[t].trace = <<RejectingStage(task[t])>>

\* C6: every rejected request has exactly one SecurityEvent written for it.
C6_OneEventPerRejection ==
    \A t \in Tasks :
        Done(t) /\ Rejected(t) => Len(task[t].events) = 1

\* C7: every response carries the security headers.
C7_HeadersOnEveryResponse ==
    \A t \in Tasks :
        Done(t) => task[t].headers

\* C8: an identity is never removed from blocked_ips, and every request of an
\* identity that was blocked when the request arrived is answered 403.
C8_BlockedIsAnswered403 ==
    [][ /\ blocked_ips \subseteq blocked_ips'
        /\ \A t \in Tasks :
              (task'[t].pc = "done" /\ task'[t].blockedAtStart)
              => task'[t].status = 403 ]_vars

\* C10: a POST to the upload route with a file longer than 50 MiB is answered
\* 413, has the single event FILE_TOO_LARGE logged, and meets neither the
\* token check nor the handler, whatever its Authorization header.
C10_OversizeUploadRejectedFirst ==
    \A t \in Tasks :
        ( /\ Done(t)
          /\ task[t].req.path = UPLOAD /\ task[t].req.method = "POST"
          /\ task[t].req.large )
        => /\ task[t].status = 413
           /\ task[t].events = <<"FILE_TOO_LARGE">>
           /\ \A i \in 1..Len(task[t].trace) : task[t].trace[i] # "auth"
           /\ ~task[t].handled


(***************************************************************************)
(* Properties of the authentication stage  (checked under Spec)            *)
(***************************************************************************)
Accepted(auth) ==
    auth # "none" /\ verify_token(BearerToken(auth), now) = "payload"

\* C11: on a route outside the public set the handler is reached only by a
\* request with a bearer token that verify_token accepted, and then
\* request.state.user_id is the subject of the token; a request without a
\* bearer token or with a token whose verification failed is answered 401
\* and does not reach the handler.
C11_HandlerOnlyWithAcceptedToken ==
    \A t \in Tasks :
        task[t].pc # "idle" /\ task[t].req.path \notin public_paths =>
            /\ task[t].handled =>
                  /\ Accepted(task[t].req.auth)
                  /\ task[t].user_id = BearerToken(task[t].req.auth).user_id
            /\ Done(t) /\ ~Accepted(task[t].req.auth) =>
                  task[t].status = 401 /\ ~task[t].handled

(***************************************************************************)
(* Properties of the session tokens  (checked under SpecFn)                *)
(***************************************************************************)
\* C12: verify_token on a token that generate_secure_token(s, ttl) issued
\* returns a payload with subject s when it is called before issue time + ttl
\* and returns None when it is called after issue time + ttl.
C12_TokenRoundTrip ==
    tok.state = "issued" /\ tok.result # "" =>
        /\ tok.at < tok.issuedAt + tok.ttl =>
              tok.result = "payload" /\ tok.token.user_id = tok.subject
        /\ tok.at > tok.issuedAt + tok.ttl => tok.result = "None"

\* C13: verify_token accepts no token that is signed with the secret key and
\* unexpired but names another issuer than "BOQMate" or another audience than
\* "BOQMate-Users".
C13_OtherIssuerOrAudienceRejected ==
    ( /\ tok.state = "presented" /\ tok.result # ""
      /\ tok.token.key = SECRET
      /\ tok.token.exp >= tok.at
      /\ (tok.token.iss # "BOQMate" \/ tok.token.aud # "BOQMate-Users") )
    => tok.result # "payload"


(***************************************************************************)
(* Properties of the string functions  (checked under SpecFn)              *)
(***************************************************************************)
Returned(op) == fn.op = op /\ fn.done

Contains(p, s) == \E i \in 1..Len(s) : OccursAt(p, s, i)

\* C14: the result of sanitize_filename contains neither "../" nor "..\",
\* none of the characters < > : " | ? *, and has at most 255 characters.
C14_SanitizedNameIsClean ==
    Returned("sanitize_filename") =>
        /\ ~Contains(<<46, 46, 47>>, fn.res)
        /\ ~Contains(<<46, 46, 92>>, fn.res)
        /\ \A i \in 1..Len(fn.res) : fn.res[i] \notin {60, 62, 58, 34, 124, 63, 42}
        /\ Len(fn.res) <= 255

\* e is the first comma-separated entry of s.
IsFirstEntry(e, s) ==
    /\ Len(e) <= Len(s)
    /\ \A k \in 1..Len(e) : e[k] = s[k] /\ e[k] # 44
    /\ Len(e) = Len(s) \/ s[Len(e) + 1] = 44

\* r is e without the whitespace around it.
IsTrimmed(r, e) ==
    \E a, b \in 0..Len(e) :
        /\ a + Len(r) + b = Len(e)
        /\ \A k \in 1..Len(r) : r[k] = e[a + k]
        /\ \A k \in 1..a : e[k] \in {9, 10, 11, 12, 13, 28, 29, 30, 31, 32, 133, 160}
        /\ \A k \in (Len(e) - b + 1)..Len(e) :
              e[k] \in {9, 10, 11, 12, 13, 28, 29, 30, 31, 32, 133, 160}
        /\ r # << >> =>
              /\ r[1] \notin {9, 10, 11, 12, 13, 28, 29, 30, 31, 32, 133, 160}
              /\ r[Len(r)] \notin {9, 10, 11, 12, 13, 28, 29, 30, 31, 32, 133, 160}

FirstEntryTrimmed(r, s) ==
    \E n \in 0..Len(s) :
        IsFirstEntry(SubSeq(s, 1, n), s) /\ IsTrimmed(r, SubSeq(s, 1, n))

\* get_client_ip reads the request only.
GetClientIpChangesNothing ==
    (~fn.done /\ fn'.done /\ fn'.op = "get_client_ip")
        => UNCHANGED <<request_history, blocked_ips>>

\* C15 as stated: get_client_ip returns the first comma-separated entry of
\* the X-Forwarded-For header, without the whitespace around it, when the
\* header is present, and the peer address otherwise; it leaves
\* request_history and blocked_ips unchanged.
C15_ForwardedEntryWhenPresent ==
    /\ [](Returned("get_client_ip") =>
             IF fn.present THEN FirstEntryTrimmed(fn.res, fn.arg)
             ELSE fn.res = fn.host)
    /\ [][GetClientIpChangesNothing]_vars

\* C15 (amended): get_client_ip returns the first comma-separated entry of
\* the X-Forwarded-For header, without the whitespace around it, when the
\* header is present and its value is not empty, and the peer address when
\* the header is absent or empty; it leaves request_history and blocked_ips
\* unchanged.
C15_ForwardedEntryWhenNotEmpty ==
    /\ [](Returned("get_client_ip") =>
             IF fn.present /\ fn.arg # << >>
             THEN FirstEntryTrimmed(fn.res, fn.arg)
             ELSE fn.res = fn.host)
    /\ [][GetClientIpChangesNothing]_vars

\* The header " 1," gives "1".
C15_Witness ==
    /\ Returned("get_client_ip")
    /\ fn.present /\ fn.arg = <<32, 49, 44>>
    /\ fn.res = <<49>>

\* A signature matches somewhere in text, letter case ignored.
SignatureMatches(text) ==
    \E k \in 1..Len(suspicious_patterns) :
        re_search(suspicious_patterns[k], text)

\* C16: validate_input refuses "<script>alert(1)</script>" and
\* "'; DROP TABLE users; --" and accepts "Install 3 steel beams, 200mm x
\* 400mm"; it refuses a string exactly when a signature matches somewhere in
\* it (letter case ignored), or it has a NUL or a control character other
\* than tab, newline and carriage return, or it is longer than 10,000
\* characters.
C16_ValidateInput ==
    Returned("validate_input") =>
        /\ fn.arg = ScriptTag => ~fn.ok
        /\ fn.arg = DropTable => ~fn.ok
        /\ fn.arg = SteelBeams => fn.ok
        /\ ~fn.ok <=>
              \/ SignatureMatches(fn.arg)
              \/ \E i \in 1..Len(fn.arg) :
                    fn.arg[i] \in (0..31) \ {9, 10, 13}
              \/ Len(fn.arg) > 10000

\* "'; DROP TABLE users; --" was refused.
C16_Witness ==
    Returned("validate_input") /\ fn.arg = DropTable /\ ~fn.ok


(***************************************************************************)
(* More properties of the pipeline  (checked under Spec)                   *)
(***************************************************************************)
Last(q) == q[Len(q)]

Ran(t, stage) == \E i \in 1..Len(task[t].trace) : task[t].trace[i] = stage

Logged(t, event) ==
    \E i \in 1..Len(task[t].events) : task[t].events[i] = event

\* C17: every event that a middleware logs with log_security_event is a row
\* of security_logs, and the rows that security_logs has are neither changed
\* nor removed.
C17_EventsArePersisted ==
    /\ [](\A t \in Tasks : \A i \in 1..Len(task[t].events) :
             \E k \in 1..Len(security_logs) :
                 security_logs[k].event_type = task[t].events[i])
    /\ [][/\ Len(security_logs') >= Len(security_logs)
           /\ SubSeq(security_logs', 1, Len(security_logs)) = security_logs]_vars

\* C18: a filename that sanitize_filename changes is no reason of a
\* rejection; the extension check is made on the sanitized name, and the
\* handler stores the upload under the sanitized name.
C18_SanitizedNameIsUsed ==
    \A t \in Tasks :
        LET f     == task[t].req.file
            clean == sanitize_filename(f.name)
        IN
        Ran(t, "upload") /\ f.present =>
            /\ Logged(t, "INVALID_FILE_TYPE")
                  <=> ~validate_file_type(clean, allowed_extensions)
            /\ task[t].stored # << >> => task[t].stored = clean

\* C19: a request with the method POST, PUT, PATCH or DELETE whose body or
\* one of whose query parameters validate_input refuses is rejected with 400
\* by the input validation and reaches no later stage, and a body that
\* cannot be read or decoded does not pass the input validation either.
C19_StateChangingRequestsAreValidated ==
    \A t \in Tasks :
        ( /\ task[t].req.method \in {"POST", "PUT", "PATCH", "DELETE"}
          /\ Ran(t, "input")
          /\ task[t].req.body \in {"bad", "raises"} \/ ~task[t].req.queryOk )
        => /\ Last(task[t].trace) = "input"
           /\ ~task[t].handled
           /\ task[t].pc \in {"up", "done"}
           /\ task[t].req.body = "bad" \/ ~task[t].req.queryOk =>
                 task[t].rejectedBy = INPUT /\ task[t].status = 400

\* C20: a request in one of whose stages an exception was raised is answered
\* 500 without the text of the exception, and no stage runs after the stage
\* that raised.
C20_ExceptionsAreAnswered500 ==
    \A t \in Tasks :
        task[t].raised # << >> =>
            /\ Last(task[t].trace) = task[t].raised[1]
            /\ Done(t) => task[t].status = 500 /\ ~task[t].leak


(***************************************************************************)
(* More properties of the rate limiter  (checked under SpecRL)             *)
(***************************************************************************)
\* check_rate_limit(ip) has just been called directly.
JustCalled(ip) == callLog'[ip] # callLog[ip]

\* C22: right after check_rate_limit(ip) has run at time t, every entry s of
\* request_history[ip] has t - s < rate_limit_window (an entry exactly one
\* window old is gone), and the entries of every other identity are what
\* they were, expired or not.
C22_PurgeIsLazyAndStrict ==
    [][\A ip \in Identities : JustCalled(ip) =>
          /\ ip \in DOMAIN request_history'
          /\ \A i \in 1..Len(request_history'[ip]) :
                now - request_history'[ip][i] < rate_limit_window
          /\ \A o \in Identities \ {ip} :
                /\ o \in DOMAIN request_history' <=> o \in DOMAIN request_history
                /\ o \in DOMAIN request_history =>
                      request_history'[o] = request_history[o]]_vars

\* ip was admitted one window ago and has been called again now: the entry
\* of a window ago is gone, while the other identity keeps an expired entry.
C22_Witness ==
    \E ip \in Identities : \E o \in Identities \ {ip} :
        /\ Len(Log(ip)) >= 2
        /\ Last(Log(ip)).t = now
        /\ \E i \in 1..Len(Log(ip)) :
              Log(ip)[i].res /\ Log(ip)[i].t = now - rate_limit_window
        /\ \A k \in 1..Len(HistoryOf(ip)) :
              HistoryOf(ip)[k] > now - rate_limit_window
        /\ \E k \in 1..Len(HistoryOf(o)) :
              now - HistoryOf(o)[k] >= rate_limit_window


(***************************************************************************)
(* More properties of the string functions  (checked under SpecFn)         *)
(***************************************************************************)
\* C28: sanitize_filename is idempotent: sanitizing its result again gives
\* the same result.
C28_SanitizeIsIdempotent ==
    Returned("sanitize_filename") => sanitize_filename(fn.res) = fn.res

\* The texts that data holds, at every depth.
RECURSIVE StringLeaves(_)
StringLeaves(d) ==
    IF d.kind = "str" THEN {d.text}
    ELSE UNION { StringLeaves(d.items[i]) : i \in 1..Len(d.items) }

\* C23: validate_input of a dict or a list is true exactly when
\* validate_input is true of each of its values or items, and so, level by
\* level, exactly when every text in it at any depth is accepted.
C23_ContainersAreValidatedRecursively ==
    Returned("validate_data") =>
        /\ fn.ok <=> \A i \in 1..Len(fn.data.items) :
                        validate_input(fn.data.items[i])
        /\ fn.ok <=> \A text \in StringLeaves(fn.data) : _validate_string(text)

\* A list whose only item is a dict with a refused text was refused.
C23_Witness ==
    /\ Returned("validate_data")
    /\ fn.data = List(<<Dict(<<Str(SafeText), Str(UnsafeText)>>)>>)
    /\ ~fn.ok

\* C24: _validate_string tests the length of a text before it matches any
\* signature: of a text of more than 10,000 characters no signature is
\* matched.
C24_LengthCapBeforeMatching ==
    Returned("validate_input") /\ Len(fn.arg) > 10000 =>
        /\ ~fn.ok
        /\ \A i \in 1..Len(fn.checks) : fn.checks[i] # "patterns"

(***************************************************************************)
(* C25: cleanup_old_logs                                                   *)
(***************************************************************************)
\* C25: after cleanup_old_logs(days), security_logs holds exactly the rows
\* it held before whose timestamp is not older than now - days: the older
\* rows are deleted and every other row is kept.
C25_CleanupDeletesExactlyTheOldRows ==
    dbcall.op = "cleanup_old_logs"
        => security_logs =
              SelectSeq(dbcall.logs,
                        LAMBDA row : ~(row.timestamp < dbcall.at - dbcall.days))

(***************************************************************************)
(* C29: the sanitizer and the statements of the class                      *)
(***************************************************************************)
\* C29: insert_file of a record whose id the table does not have returns
\* True and stores the record; get_file_by_id returns a record that
\* insert_file was given, for the id and the user of that record; after
\* log_security_event security_logs has one row more; and _sanitize_sql
\* accepts every statement that the methods of the class issue.
C29_OwnWritesPassTheSanitizer ==
    /\ dbcall.op = "insert_file" /\ dbcall.rec \in dbcall.inserted
          => dbcall.ok /\ dbcall.rec \in files
    /\ dbcall.op = "get_file_by_id" /\ dbcall.rec \in dbcall.inserted
          => dbcall.ret = dbcall.rec
    /\ dbcall.op = "log_security_event"
          => Len(security_logs) = Len(dbcall.logs) + 1
    /\ OwnStatementsPass

(***************************************************************************)
(* More properties of the pipeline  (checked under Spec)                   *)
(* C21, C26, C27, C30                                                      *)
(***************************************************************************)
\* What AuthenticationMiddleware does with the request req when its bearer
\* token is the one of auth.
AuthOutcomeOf(req, auth) ==
    AuthenticationOutcome([IdleTask EXCEPT !.pc = "down", !.depth = 1,
                                           !.req = [req EXCEPT !.auth = auth]])

\* C21: a request with an expired token and the same request with an invalid
\* token (bad signature, malformed) are both answered 401 by the token
\* check, and the events logged for the two rejections differ.
C21_SameAnswerDistinctEvents ==
    \A t \in Tasks :
        Ran(t, "auth") /\ task[t].req.auth \in {"expired", "forged"} =>
            LET expired == AuthOutcomeOf(task[t].req, "expired")
                invalid == AuthOutcomeOf(task[t].req, "forged")
            IN
            /\ task[t].status = 401 /\ task[t].rejectedBy = AUTH
            /\ expired.status = 401 /\ invalid.status = 401
            /\ expired.events # invalid.events

\* C26: a request is answered 429 only when its identity is not blocked, and
\* that answer blocks the identity; blocked_ips never shrinks (so an identity
\* gets 429 at most once); and a request that arrives when its identity is
\* blocked is answered 403 and does not reach check_rate_limit, however much
\* time has passed.
C26_At429MostOnceThen403 ==
    /\ [](\A t \in Tasks :
             Done(t) /\ task[t].blockedAtStart =>
                 /\ task[t].status = 403
                 /\ task[t].rejectedBy = SEC
                 /\ ~Ran(t, "rate"))
    /\ [][ /\ blocked_ips \subseteq blocked_ips'
           /\ \A t \in Tasks :
                 task'[t].status = 429 /\ task[t].status # 429 =>
                     /\ task[t].req.ip \notin blocked_ips
                     /\ task[t].req.ip \in blocked_ips' ]_vars

\* C27: an upload whose decoded content is longer than 10,000 characters
\* does not reach the handler; when its extension is allowed and it is not
\* longer than 50 MiB, it is rejected by the upload check with 400 and the
\* event MALICIOUS_FILE_CONTENT.
C27_LongContentNeverReachesHandler ==
    \A t \in Tasks :
        LET f == task[t].req.file IN
        Ran(t, "upload") /\ f.present /\ f.chars > 10000 =>
            /\ ~task[t].handled
            /\ f.extOk /\ ~f.large =>
                  /\ task[t].rejectedBy = FILE
                  /\ task[t].status = 400
                  /\ Logged(t, "MALICIOUS_FILE_CONTENT")

\* An upload of 10,001 characters with an allowed extension was answered 400
\* by the upload check.
C27_Witness ==
    \E t \in Tasks :
        /\ Done(t) /\ Ran(t, "upload")
        /\ task[t].req.file.present /\ task[t].req.file.chars > 10000
        /\ task[t].req.file.extOk /\ ~task[t].req.file.large
        /\ task[t].rejectedBy = FILE /\ task[t].status = 400
        /\ ~task[t].handled

\* C30: a request that reaches the handler of a route outside the public set
\* carries a token that get_current_user accepts too, and the user id that
\* the handler acts on is the one in request.state.user_id.
C30_MiddlewareAndDependencyAgree ==
    \A t \in Tasks :
        task[t].handled /\ task[t].req.path \notin public_paths =>
            /\ task[t].dep = "user"
            /\ task[t].actor = task[t].user_id

====
